---- MODULE Spec2Model ----
(***************************************************************************)
(* Model of the Tekton template resolver (cmd/template-resolver).          *)
(*                                                                         *)
(* A Go string is a finite sequence of symbols.  Parameter names and       *)
(* namespace keys are sequences of one-character strings, so that          *)
(* toCamelCase and strings.Contains work on runes.  Parameter values,      *)
(* template text and rendered text are sequences of lexical tokens of the  *)
(* structured-text grammar (see the "Tokens" section), so that the YAML    *)
(* and JSON decoders are computed from the text and the JSON               *)
(* concatenation of Resolve is a real concatenation.                       *)
(***************************************************************************)
EXTENDS Integers, Sequences, FiniteSets, TLC

VARIABLES
    params,          \* the []pipelinev1.Param of the call under way
    pc,              \* position of the call: init, fetch, normalize, render, done, validated
    repository,      \* Resolve's local variable repository
    path,            \* Resolve's local variable path
    templateData,    \* Resolve's local map templateData (the namespace)
    templateContent, \* text returned by the fetcher
    fetchCalls,      \* arguments of every FetchTemplate call made so far
    events,          \* phases the call has run, in order
    result,          \* the returned framework.ResolvedResource (NoResource for nil)
    err,             \* the returned error (NoError for nil)
    yamlLog,         \* what the final validation of renderTemplate logged
    camelIn,         \* argument of the last toCamelCase call
    camelOut,        \* its result
    other,           \* a second Resolve call running on the same resolver
    http,            \* the request and response of the standalone /resolve handler
    fetch,           \* a call of gitTemplateFetcher.FetchTemplate
    helper,          \* a call of the template helper functions
    config           \* the process: whether main has run, and the configuration globals

\* the variables of the machines that run beside the single call
aux == <<other, http, fetch, helper, config>>

vars == <<params, pc, repository, path, templateData, templateContent,
          fetchCalls, events, result, err, yamlLog, camelIn, camelOut, aux>>

(***************************************************************************)
(* Bounds of the model.                                                    *)
(***************************************************************************)
MaxParams == 3
MaxNameLen == 4

(***************************************************************************)
(* Strings.                                                                *)
(***************************************************************************)
EmptyString == << >>

\* strings.Contains
Contains(s, sub) ==
    \E i \in 0..(Len(s) - Len(sub)) :
        \A j \in 1..Len(sub) : s[i + j] = sub[j]

LowerRunes == <<"a","b","c","d","e","f","g","h","i","j","k","l","m",
                "n","o","p","q","r","s","t","u","v","w","x","y","z">>
UpperRunes == <<"A","B","C","D","E","F","G","H","I","J","K","L","M",
                "N","O","P","Q","R","S","T","U","V","W","X","Y","Z">>

\* unicode.ToUpper
ToUpper(r) ==
    IF \E i \in 1..26 : LowerRunes[i] = r
    THEN UpperRunes[CHOOSE i \in 1..26 : LowerRunes[i] = r]
    ELSE r

\* strings.Split(s, sep) for a one-rune separator: always at least one part
RECURSIVE SplitFrom(_, _, _)
SplitFrom(s, sep, cur) ==
    IF s = << >> THEN << cur >>
    ELSE IF Head(s) = sep THEN << cur >> \o SplitFrom(Tail(s), sep, << >>)
    ELSE SplitFrom(Tail(s), sep, Append(cur, Head(s)))

Split(s, sep) == SplitFrom(s, sep, << >>)

\* strings.Join(parts, "")
RECURSIVE Concat(_)
Concat(parts) ==
    IF parts = << >> THEN << >> ELSE Head(parts) \o Concat(Tail(parts))

\* strings.Join(parts, sep) for a one-symbol separator
RECURSIVE JoinWith(_, _)
JoinWith(parts, sep) ==
    IF parts = << >> THEN << >>
    ELSE IF Len(parts) = 1 THEN Head(parts)
    ELSE Head(parts) \o << sep >> \o JoinWith(Tail(parts), sep)

\* a variant that upper-cases every rune of the part (what strings.ToUpper does)
CapitalizeAll(part) == [ i \in 1..Len(part) |-> ToUpper(part[i]) ]

\* the body of toCamelCase's loop: upper-case the first rune of a non-empty part
Capitalize(part) ==
    IF Len(part) > 0 THEN << ToUpper(part[1]) >> \o Tail(part) ELSE part

\* toCamelCase
toCamelCase(paramName) ==
    LET parts == Split(paramName, "-")
    IN  Concat([ i \in 1..Len(parts) |-> Capitalize(parts[i]) ])

(***************************************************************************)
(* Tokens of structured text.                                              *)
(*   "{" "}" "," "[" "]"  flow / JSON punctuation                          *)
(*   "Na" "Nb"   the JSON member "name":"a" / "name":"b"                   *)
(*   "N1"        the JSON member "name":1                                  *)
(*   "K"         the JSON member "k":1                                     *)
(*   "ya" "yb"   the block line  name: a / name: b                         *)
(*   "y1"        the block line  name: 1                                   *)
(*   "yk"        the block line  k: 1                                      *)
(*   "-"         a block sequence entry marker                             *)
(*   "[]"        the empty flow sequence                                   *)
(*   "#"         the comment  # name:                                      *)
(*   "@"         a reserved indicator (no document contains it)            *)
(*   any other token is a plain scalar word                                *)
(* A JSON member does not contain the substring name: (a quote separates   *)
(* the key from the colon); the block lines for name and the comment do.   *)
(***************************************************************************)
JsonPairs == {"Na", "Nb", "N1", "K"}
BlockPairs == {"ya", "yb", "y1", "yk"}
AllPairs == JsonPairs \cup BlockPairs
Punctuation == {"{", "}", ",", "[", "]", "-", "[]", "#", "@"}
MarkerTokens == {"ya", "yb", "y1", "#"}

PairKey(t) == IF t \in {"K", "yk"} THEN "k" ELSE "name"

\* the decoded value of a member, tagged with its dynamic type
PairVal(t) ==
    CASE t \in {"Na", "ya"} -> "s:a"
      [] t \in {"Nb", "yb"} -> "s:b"
      [] OTHER -> "i:1"

\* value.(string): the type assertion and its result
IsString(v) == v \in {"s:a", "s:b"}
StringOf(v) == IF v = "s:a" THEN << "a" >> ELSE << "b" >>

\* strings.Contains(text, "name:")
ContainsNameMarker(text) == \E i \in 1..Len(text) : text[i] \in MarkerTokens

NilMap == << >>

\* the map decoded from a list of members; a later member replaces an earlier one
MapOfPairs(pairs) ==
    [ key \in { PairKey(pairs[i]) : i \in 1..Len(pairs) } |->
        PairVal(pairs[CHOOSE i \in 1..Len(pairs) :
                    /\ PairKey(pairs[i]) = key
                    /\ \A j \in (i+1)..Len(pairs) : PairKey(pairs[j]) # key]) ]

DistinctKeys(pairs) ==
    \A i, j \in 1..Len(pairs) : i # j => PairKey(pairs[i]) # PairKey(pairs[j])

\* members separated by commas: the members, or "bad"
IsMemberList(toks, allowed) ==
    /\ Len(toks) % 2 = 1
    /\ \A i \in 1..Len(toks) :
          IF i % 2 = 1 THEN toks[i] \in allowed ELSE toks[i] = ","

Members(toks) == [ i \in 1..((Len(toks) + 1) \div 2) |-> toks[2 * i - 1] ]

BadNode == [ok |-> FALSE, kind |-> "error", map |-> NilMap, items |-> << >>]
NullNode == [ok |-> TRUE, kind |-> "null", map |-> NilMap, items |-> << >>]
ScalarNode == [ok |-> TRUE, kind |-> "scalar", map |-> NilMap, items |-> << >>]
MapNode(m) == [ok |-> TRUE, kind |-> "map", map |-> m, items |-> << >>]
SeqNode(its) == [ok |-> TRUE, kind |-> "seq", map |-> NilMap, items |-> its]

\* a YAML node that is not a block sequence
YamlFlat(toks) ==
    IF toks = << >> THEN NullNode
    ELSE IF Head(toks) = "{" THEN
        IF Len(toks) >= 2 /\ toks[Len(toks)] = "}" THEN
            LET inner == SubSeq(toks, 2, Len(toks) - 1)
            IN  IF inner = << >> THEN MapNode(NilMap)
                ELSE IF IsMemberList(inner, AllPairs) /\ DistinctKeys(Members(inner))
                     THEN MapNode(MapOfPairs(Members(inner)))
                     ELSE BadNode
        ELSE BadNode
    ELSE IF \A i \in 1..Len(toks) : toks[i] \in BlockPairs THEN
        IF DistinctKeys(toks) THEN MapNode(MapOfPairs(toks)) ELSE BadNode
    ELSE IF toks = << "[]" >> THEN SeqNode(<< >>)
    ELSE IF \A i \in 1..Len(toks) : toks[i] \notin (Punctuation \cup AllPairs)
         THEN ScalarNode
         ELSE BadNode

\* the YAML document a text holds (yaml.v3 decoding into a node)
YamlParse(text) ==
    LET toks == SelectSeq(text, LAMBDA t : t # "#")
    IN  IF toks # << >> /\ Head(toks) = "-" THEN
            LET parts == Tail(Split(toks, "-"))
                nodes == [ i \in 1..Len(parts) |-> YamlFlat(parts[i]) ]
            IN  IF \A i \in 1..Len(nodes) : nodes[i].ok
                THEN SeqNode([ i \in 1..Len(nodes) |->
                                 [kind |-> nodes[i].kind, map |-> nodes[i].map] ])
                ELSE BadNode
        ELSE YamlFlat(toks)

\* yaml.Unmarshal(text, &task) with task a map[string]interface{}
YamlUnmarshalMap(text) ==
    LET n == YamlParse(text)
    IN  IF n.ok /\ n.kind \in {"map", "null"}
        THEN [err |-> FALSE, map |-> n.map]
        ELSE [err |-> TRUE, map |-> NilMap]

\* yaml.Unmarshal(text, &tasks) with tasks a []map[string]interface{}
YamlUnmarshalTasks(text) ==
    LET n == YamlParse(text)
    IN  IF n.ok /\ n.kind = "null" THEN [err |-> FALSE, tasks |-> << >>]
        ELSE IF /\ n.ok
                /\ n.kind = "seq"
                /\ \A i \in 1..Len(n.items) : n.items[i].kind \in {"map", "null"}
             THEN [err |-> FALSE,
                   tasks |-> [ i \in 1..Len(n.items) |-> n.items[i].map ]]
             ELSE [err |-> TRUE, tasks |-> << >>]

\* yaml.Unmarshal(text, &obj) with obj an interface{}: only the error matters
YamlUnmarshalAny(text) == [err |-> ~YamlParse(text).ok]

\* json.Unmarshal(text, &taskObjects) on the inside of the brackets
RECURSIVE JsonObjects(_)
JsonObjects(toks) ==
    IF toks = << >> \/ Head(toks) # "{" \/ ~(\E j \in 2..Len(toks) : toks[j] = "}")
    THEN [err |-> TRUE, objs |-> << >>]
    ELSE
        LET close == CHOOSE j \in 2..Len(toks) :
                        toks[j] = "}" /\ \A i \in 2..(j-1) : toks[i] # "}"
            inner == SubSeq(toks, 2, close - 1)
            rest == SubSeq(toks, close + 1, Len(toks))
            obj == IF inner = << >> THEN NilMap ELSE MapOfPairs(Members(inner))
        IN  IF inner # << >> /\ ~IsMemberList(inner, JsonPairs)
            THEN [err |-> TRUE, objs |-> << >>]
            ELSE IF rest = << >> THEN [err |-> FALSE, objs |-> << obj >>]
            ELSE IF Head(rest) # "," THEN [err |-> TRUE, objs |-> << >>]
            ELSE LET more == JsonObjects(Tail(rest))
                 IN  IF more.err THEN more
                     ELSE [err |-> FALSE, objs |-> << obj >> \o more.objs]

JsonUnmarshalTaskObjects(text) ==
    IF Len(text) < 2 \/ Head(text) # "[" \/ text[Len(text)] # "]"
    THEN [err |-> TRUE, objs |-> << >>]
    ELSE LET inner == SubSeq(text, 2, Len(text) - 1)
         IN  IF inner = << >> THEN [err |-> FALSE, objs |-> << >>]
             ELSE JsonObjects(inner)

\* the block lines yaml.Marshal writes for one map: keys in sorted order
MarshalMap(m) ==
    IF DOMAIN m = {} THEN << "{", "}" >>
    ELSE (IF "k" \in DOMAIN m THEN << "yk" >> ELSE << >>)
         \o (IF "name" \in DOMAIN m
             THEN << (CASE m["name"] = "s:a" -> "ya"
                        [] m["name"] = "s:b" -> "yb"
                        [] OTHER -> "y1") >>
             ELSE << >>)

\* yaml.Marshal(tasks) for a []map[string]interface{}
YamlMarshalTasks(tasks) ==
    IF tasks = << >> THEN << "[]" >>
    ELSE Concat([ i \in 1..Len(tasks) |-> << "-" >> \o MarshalMap(tasks[i]) ])

(***************************************************************************)
(* Parameters (pipelinev1.Param) and namespace values (interface{}).       *)
(***************************************************************************)
RepositoryParam == <<"r","e","p","o","s","i","t","o","r","y">>
PathParam == <<"p","a","t","h">>

StringParam(name, text) ==
    [Name |-> name,
     Value |-> [Type |-> "string", StringVal |-> text,
                ArrayVal |-> << >>, ObjectVal |-> NilMap]]

ArrayParam(name, texts) ==
    [Name |-> name,
     Value |-> [Type |-> "array", StringVal |-> EmptyString,
                ArrayVal |-> texts, ObjectVal |-> NilMap]]

ObjectParam(name, obj) ==
    [Name |-> name,
     Value |-> [Type |-> "object", StringVal |-> EmptyString,
                ArrayVal |-> << >>, ObjectVal |-> obj]]

\* the dynamic types a namespace entry can have
StringValue(text) ==
    [t |-> "string", s |-> text, l |-> << >>, m |-> << >>, o |-> NilMap]
StringsValue(texts) ==
    [t |-> "[]string", s |-> EmptyString, l |-> texts, m |-> << >>, o |-> NilMap]
MapsValue(maps) ==
    [t |-> "[]map", s |-> EmptyString, l |-> << >>, m |-> maps, o |-> NilMap]
ObjectValue(obj) ==
    [t |-> "map[string]string", s |-> EmptyString, l |-> << >>, m |-> << >>, o |-> obj]

\* templateData[key] = value
Put(data, key, value) ==
    [ k \in (DOMAIN data) \cup {key} |-> IF k = key THEN value ELSE data[k] ]

ObjectsSuffix == <<"O","b","j","e","c","t","s">>
NamesSuffix == <<"N","a","m","e","s">>
NameSuffix == <<"N","a","m","e">>

(***************************************************************************)
(* ValidateParams.                                                         *)
(***************************************************************************)
NoError == "nil"
ErrMissingRepository == "missing required parameter: repository"
ErrMissingPath == "missing required parameter: path"
ErrFetch == "failed to fetch template"
ErrRender == "failed to render template"

\* paramMap[name] after the loop of ValidateParams
HasParam(ps, name) == \E i \in 1..Len(ps) : ps[i].Name = name

\* a variant that counts a required parameter only when it is a string
HasStringParam(ps, name) ==
    \E i \in 1..Len(ps) : ps[i].Name = name /\ ps[i].Value.Type = "string"

ValidateParamsStringOnly(ps) ==
    IF ~HasStringParam(ps, RepositoryParam) THEN ErrMissingRepository
    ELSE IF ~HasStringParam(ps, PathParam) THEN ErrMissingPath
    ELSE NoError

ValidateParams(ps) ==
    IF ~HasParam(ps, RepositoryParam) THEN ErrMissingRepository
    ELSE IF ~HasParam(ps, PathParam) THEN ErrMissingPath
    ELSE NoError

(***************************************************************************)
(* Resolve: the first loop, which extracts the required parameters.        *)
(***************************************************************************)
\* a variant whose namespace keeps the first occurrence of a required
\* parameter while the locals take the last
RECURSIVE ExtractFromKeepFirst(_, _)
ExtractFromKeepFirst(ps, acc) ==
    IF ps = << >> THEN acc
    ELSE LET param == Head(ps)
             next ==
                 IF param.Name = RepositoryParam THEN
                     [acc EXCEPT !.repository = param.Value.StringVal,
                                 !.data = IF RepositoryParam \in DOMAIN acc.data THEN acc.data
                                          ELSE Put(acc.data, RepositoryParam,
                                                   StringValue(param.Value.StringVal))]
                 ELSE IF param.Name = PathParam THEN
                     [acc EXCEPT !.path = param.Value.StringVal,
                                 !.data = IF PathParam \in DOMAIN acc.data THEN acc.data
                                          ELSE Put(acc.data, PathParam,
                                                   StringValue(param.Value.StringVal))]
                 ELSE acc
         IN  ExtractFromKeepFirst(Tail(ps), next)

RECURSIVE ExtractFrom(_, _)
ExtractFrom(ps, acc) ==
    IF ps = << >> THEN acc
    ELSE LET param == Head(ps)
             next ==
                 IF param.Name = RepositoryParam THEN
                     [acc EXCEPT !.repository = param.Value.StringVal,
                                 !.data = Put(acc.data, RepositoryParam,
                                              StringValue(param.Value.StringVal))]
                 ELSE IF param.Name = PathParam THEN
                     [acc EXCEPT !.path = param.Value.StringVal,
                                 !.data = Put(acc.data, PathParam,
                                              StringValue(param.Value.StringVal))]
                 ELSE acc
         IN  ExtractFrom(Tail(ps), next)

ExtractRequired(ps) ==
    ExtractFrom(ps, [repository |-> EmptyString, path |-> EmptyString, data |-> << >>])

(***************************************************************************)
(* Resolve: the second loop, which fills the namespace.                    *)
(***************************************************************************)
\* allItemsJSON: "[" + the elements joined by "," + "]"
AllItemsJSON(arrayVal) == << "[" >> \o JoinWith(arrayVal, ",") \o << "]" >>

\* the names of the tasks whose "name" is a string, in order
RECURSIVE TaskNames(_)
TaskNames(tasks) ==
    IF tasks = << >> THEN << >>
    ELSE LET task == Head(tasks)
         IN  (IF "name" \in DOMAIN task /\ IsString(task["name"])
              THEN << StringOf(task["name"]) >> ELSE << >>)
             \o TaskNames(Tail(tasks))

\* a variant whose convenience entry is the first task name
StoreTasksFirstName(data, camelName, tasks) ==
    LET taskNames == TaskNames(tasks)
        d1 == Put(data, camelName, StringValue(YamlMarshalTasks(tasks)))
        d2 == Put(d1, camelName \o ObjectsSuffix, MapsValue(tasks))
    IN  IF Len(taskNames) > 0
        THEN Put(Put(d2, camelName \o NamesSuffix, StringsValue(taskNames)),
                 camelName \o NameSuffix, StringValue(taskNames[1]))
        ELSE d2

\* the entries written for recognized tasks: the YAML string, the objects,
\* and, when there is a name, the names and the last name
StoreTasks(data, camelName, tasks) ==
    LET taskNames == TaskNames(tasks)
        d1 == Put(data, camelName, StringValue(YamlMarshalTasks(tasks)))
        d2 == Put(d1, camelName \o ObjectsSuffix, MapsValue(tasks))
    IN  IF Len(taskNames) > 0
        THEN Put(Put(d2, camelName \o NamesSuffix, StringsValue(taskNames)),
                 camelName \o NameSuffix, StringValue(taskNames[Len(taskNames)]))
        ELSE d2

\* the fallback loop over the array items: the items that parse and have a name
RECURSIVE NamedItems(_)
NamedItems(arrayVal) ==
    IF arrayVal = << >> THEN << >>
    ELSE LET u == YamlUnmarshalMap(Head(arrayVal))
         IN  (IF ~u.err /\ "name" \in DOMAIN u.map THEN << u.map >> ELSE << >>)
             \o NamedItems(Tail(arrayVal))

ProcessArray(data, param, camelName) ==
    LET parsed == JsonUnmarshalTaskObjects(AllItemsJSON(param.Value.ArrayVal))
        tasks == NamedItems(param.Value.ArrayVal)
    IN  IF /\ \/ Contains(param.Name, <<"s","t","e","p","s">>)
              \/ Contains(param.Name, <<"t","a","s","k","s">>)
           /\ ~parsed.err
        THEN StoreTasks(data, camelName, parsed.objs)
        ELSE IF Len(tasks) > 0
             THEN StoreTasks(data, camelName, tasks)
             ELSE Put(data, camelName, StringsValue(param.Value.ArrayVal))

\* a variant that keeps the text when it holds no task
ProcessStringKeepText(data, param, camelName) ==
    LET paramVal == param.Value.StringVal
        u == YamlUnmarshalTasks(paramVal)
    IN  IF ContainsNameMarker(paramVal) /\ ~u.err /\ Len(u.tasks) > 0
        THEN StoreTasks(data, camelName, u.tasks)
        ELSE Put(data, camelName, StringValue(paramVal))

\* a variant that stores the empty string for a text that does not parse
ProcessStringDropUnparsed(data, param, camelName) ==
    LET paramVal == param.Value.StringVal
        u == YamlUnmarshalTasks(paramVal)
    IN  IF ContainsNameMarker(paramVal) THEN
            IF ~u.err /\ Len(u.tasks) > 0 THEN StoreTasks(data, camelName, u.tasks)
            ELSE Put(data, camelName, StringValue(EmptyString))
        ELSE Put(data, camelName, StringValue(paramVal))

ProcessString(data, param, camelName) ==
    LET paramVal == param.Value.StringVal
        u == YamlUnmarshalTasks(paramVal)
    IN  IF ContainsNameMarker(paramVal) THEN
            IF paramVal # EmptyString THEN
                IF u.err THEN Put(data, camelName, StringValue(paramVal))
                ELSE IF Len(u.tasks) > 0 THEN StoreTasks(data, camelName, u.tasks)
                ELSE Put(data, camelName, StringValue(EmptyString))
            ELSE Put(data, camelName, StringValue(paramVal))
        ELSE Put(data, camelName, StringValue(paramVal))

\* one iteration of the loop
ProcessParam(data, param) ==
    LET camelName == toCamelCase(param.Name)
    IN  IF param.Name = RepositoryParam \/ param.Name = PathParam THEN data
        ELSE IF camelName \in DOMAIN data THEN data
        ELSE IF param.Value.Type = "array" THEN ProcessArray(data, param, camelName)
        ELSE IF param.Value.Type = "object"
             THEN Put(data, camelName, ObjectValue(param.Value.ObjectVal))
             ELSE ProcessString(data, param, camelName)

RECURSIVE ProcessParams(_, _)
ProcessParams(data, ps) ==
    IF ps = << >> THEN data
    ELSE ProcessParams(ProcessParam(data, Head(ps)), Tail(ps))

(***************************************************************************)
(* renderTemplate.  A template is text; these tokens are its actions:      *)
(*   "{{"                  an action that is never closed (a parse error)  *)
(*   "{{.Foo}}" ...        prints a namespace entry                        *)
(*   "{{range .FooNames}}" stands for  {{range .FooNames}}- {{.}}{{end}}   *)
(* Every other token is literal text.                                      *)
(***************************************************************************)
FieldActions == {"{{.Foo}}", "{{.repository}}"}
RangeActions == {"{{range .FooNames}}", "{{range .Foo}}"}

ActionKey(tok) ==
    CASE tok = "{{.Foo}}" -> <<"F","o","o">>
      [] tok = "{{.repository}}" -> RepositoryParam
      [] tok = "{{range .FooNames}}" -> <<"F","o","o">> \o NamesSuffix
      [] tok = "{{range .Foo}}" -> <<"F","o","o">>

\* how text/template prints a value
PrintValue(v) ==
    CASE v.t = "string" -> v.s
      [] v.t = "[]string" -> << "[" >> \o Concat(v.l) \o << "]" >>
      [] v.t = "[]map" -> << "[" >> \o [ i \in 1..Len(v.m) |-> "map[]" ] \o << "]" >>
      [] OTHER -> << "map[]" >>

\* the body of the range action, once per element
RangeValue(v) ==
    CASE v.t = "[]string" -> Concat([ i \in 1..Len(v.l) |-> << "-" >> \o v.l[i] ])
      [] v.t = "[]map" -> Concat([ i \in 1..Len(v.m) |-> << "-", "map[]" >> ])
      [] OTHER -> Concat([ k \in 1..Cardinality(DOMAIN v.o) |-> << "-", "v" >> ])

\* executing one token of the template
ExecToken(tok, data) ==
    IF tok \in FieldActions THEN
        IF ActionKey(tok) \in DOMAIN data
        THEN [err |-> FALSE, out |-> PrintValue(data[ActionKey(tok)])]
        ELSE [err |-> FALSE, out |-> << "<no value>" >>]
    ELSE IF tok \in RangeActions THEN
        IF ActionKey(tok) \notin DOMAIN data THEN [err |-> FALSE, out |-> << >>]
        ELSE IF data[ActionKey(tok)].t = "string" THEN [err |-> TRUE, out |-> << >>]
        ELSE [err |-> FALSE, out |-> RangeValue(data[ActionKey(tok)])]
    ELSE [err |-> FALSE, out |-> << tok >>]

\* tmpl.Execute
ExecuteTemplate(content, data) ==
    LET segs == [ i \in 1..Len(content) |-> ExecToken(content[i], data) ]
    IN  IF \E i \in 1..Len(segs) : segs[i].err
        THEN [err |-> TRUE, out |-> EmptyString]
        ELSE [err |-> FALSE, out |-> Concat([ i \in 1..Len(segs) |-> segs[i].out ])]

\* the lines the advisory scan reports
SuspectLines(text) == { i \in 1..Len(text) : YamlUnmarshalAny(<< text[i] >>).err }

\* a variant in which the validation of the output decides the result
renderTemplateStrict(content, data) ==
    IF \E i \in 1..Len(content) : content[i] = "{{"
    THEN [err |-> TRUE, out |-> EmptyString, lines |-> {}]
    ELSE LET x == ExecuteTemplate(content, data)
         IN  IF x.err \/ YamlUnmarshalAny(x.out).err
             THEN [err |-> TRUE, out |-> EmptyString, lines |-> {}]
             ELSE [err |-> FALSE, out |-> x.out, lines |-> {}]

renderTemplate(content, data) ==
    IF \E i \in 1..Len(content) : content[i] = "{{"
    THEN [err |-> TRUE, out |-> EmptyString, lines |-> {}]
    ELSE LET x == ExecuteTemplate(content, data)
         IN  IF x.err THEN [err |-> TRUE, out |-> EmptyString, lines |-> {}]
             ELSE [err |-> FALSE, out |-> x.out,
                   lines |-> IF YamlUnmarshalAny(x.out).err
                             THEN SuspectLines(x.out) ELSE {}]

(***************************************************************************)
(* The returned resource (templateResource).                               *)
(***************************************************************************)
NoResource ==
    [isNil |-> TRUE, data |-> EmptyString,
     source |-> [URI |-> EmptyString, Digest |-> NilMap, EntryPoint |-> EmptyString]]

\* a variant with the two fields of the source descriptor exchanged
NewResourceSwapped(rendered, repo, p) ==
    [isNil |-> FALSE, data |-> rendered,
     source |-> [URI |-> p, Digest |-> [sha1 |-> "unknown"], EntryPoint |-> repo]]

NewResource(rendered, repo, p) ==
    [isNil |-> FALSE, data |-> rendered,
     source |-> [URI |-> repo, Digest |-> [sha1 |-> "unknown"], EntryPoint |-> p]]

\* templateResource.Data, Annotations, RefSource
Data(r) == r.data
Annotations(r) == NilMap
RefSource(r) == r.source

(***************************************************************************)
(* Inputs.                                                                 *)
(***************************************************************************)
Foo == <<"f","o","o">>
FooCap == <<"F","o","o">>
Steps == <<"s","t","e","p","s">>
FooNames == <<"f","o","o","-","n","a","m","e","s">>

ParamPool ==
    { StringParam(RepositoryParam, << "r1" >>),
      StringParam(RepositoryParam, << "r2" >>),
      StringParam(PathParam, << "p1" >>),
      StringParam(Foo, << "bar" >>),
      StringParam(FooCap, << "baz" >>),
      StringParam(Foo, << "-", "ya", "-", "yb" >>),
      StringParam(FooNames, << "zz" >>),
      ArrayParam(Foo, << << "ya" >>, << "yb" >> >>),
      ArrayParam(Foo, << << "dev" >>, << "@" >> >>),
      ArrayParam(Steps, << << "{", "Na", "}" >>, << "{", "Nb", "}" >> >>),
      ArrayParam(Steps, << << "dev" >>, << "@" >> >>),
      ArrayParam(Steps, << << "{", "Na" >>, << "K", "}" >> >>),
      ArrayParam(PathParam, << << "ya" >> >>),
      ArrayParam(Steps, << << "ya" >>, << "yk", "yb" >> >>),
      ArrayParam(Steps, << << "ya" >>, << "{", "K", "}" >> >>),
      ObjectParam(Foo, [k |-> "v"]) }

ParamLists == UNION { [1..n -> ParamPool] : n \in 0..MaxParams }

Templates ==
    { << "yk" >>,
      << "{" >>,
      << "yk", "{{.Foo}}" >>,
      << "{{range .FooNames}}" >>,
      << "{{" >> }

(***************************************************************************)
(* The machines that run beside the single call, at rest.                  *)
(***************************************************************************)
\* the locals of a Resolve call that has not been made
NoCall ==
    [params |-> << >>, pc |-> "idle", repository |-> EmptyString,
     path |-> EmptyString, templateData |-> << >>,
     templateContent |-> EmptyString, result |-> NoResource, err |-> NoError]

\* no request has reached the /resolve handler
NoRequest ==
    [stage |-> "idle", method |-> "", body |-> "", parameters |-> << >>,
     status |-> 0, contentType |-> "", written |-> EmptyString, calls |-> << >>]

(***************************************************************************)
(* The configuration globals of the process and what main does to them.    *)
(* Durations are in seconds.                                               *)
(***************************************************************************)
EnvDebug == "DEBUG"
EnvHTTPTimeout == "HTTP_TIMEOUT"
EnvResolutionTimeout == "RESOLUTION_TIMEOUT"
EnvGitCloneDepth == "GIT_CLONE_DEPTH"
EnvGitBranch == "GIT_DEFAULT_BRANCH"

DefaultHTTPTimeout == 30
DefaultResolutionTimeout == 60
DefaultGitCloneDepth == 1
DefaultGitBranch == "main"

\* the globals before main has run: the zero values of their types
ZeroConfig ==
    [started |-> FALSE, standalone |-> FALSE, debugMode |-> FALSE, httpTimeout |-> 0,
     resolutionTimeout |-> 0, gitCloneDepth |-> 0, gitDefaultBranch |-> ""]

\* the globals after main has run with no flag and no environment variable
DefaultConfig ==
    [started |-> TRUE, standalone |-> FALSE, debugMode |-> FALSE,
     httpTimeout |-> DefaultHTTPTimeout, resolutionTimeout |-> DefaultResolutionTimeout,
     gitCloneDepth |-> DefaultGitCloneDepth, gitDefaultBranch |-> DefaultGitBranch]

\* os.LookupEnv finds no such variable
Unset == "<unset>"

\* the texts time.ParseDuration and strconv.Atoi accept, and their values
Durations == ("10s" :> 10) @@ ("2m" :> 120)
Numbers == ("5" :> 5) @@ ("0" :> 0)

getEnvWithDefault(env, key, defaultValue) ==
    IF env[key] # Unset THEN env[key] ELSE defaultValue

getEnvWithDefaultInt(env, key, defaultValue) ==
    IF env[key] # Unset /\ env[key] \in DOMAIN Numbers THEN Numbers[env[key]]
    ELSE defaultValue

getEnvWithDefaultDuration(env, key, defaultValue) ==
    IF env[key] # Unset /\ env[key] \in DOMAIN Durations THEN Durations[env[key]]
    ELSE defaultValue

\* fs.Parse on the flag set of the standalone mode: each -debug flag in turn
RECURSIVE ParseDebugFlag(_, _)
ParseDebugFlag(args, debug) ==
    IF args = << >> THEN debug
    ELSE ParseDebugFlag(Tail(args),
                        IF Head(args) \in { "-debug", "--debug" } THEN TRUE
                        ELSE IF Head(args) = "-debug=false" THEN FALSE
                        ELSE debug)

\* what main leaves in the globals for these arguments and this environment
LoadConfig(args, env) ==
    LET isStandalone == \E i \in DOMAIN args : args[i] \in { "-standalone", "--standalone" }
        scanned == \E i \in DOMAIN args : args[i] \in { "-debug", "--debug" }
        debugEnv == getEnvWithDefault(env, EnvDebug, "")
        debug == scanned \/ debugEnv = "true" \/ debugEnv = "1"
    IN  [started |-> TRUE,
         standalone |-> isStandalone,
         debugMode |-> IF isStandalone THEN ParseDebugFlag(args, debug) ELSE debug,
         httpTimeout |-> getEnvWithDefaultDuration(env, EnvHTTPTimeout, DefaultHTTPTimeout),
         resolutionTimeout |->
             getEnvWithDefaultDuration(env, EnvResolutionTimeout, DefaultResolutionTimeout),
         gitCloneDepth |-> getEnvWithDefaultInt(env, EnvGitCloneDepth, DefaultGitCloneDepth),
         gitDefaultBranch |-> getEnvWithDefault(env, EnvGitBranch, DefaultGitBranch)]

\* FetchTemplate has not been called
NoFetch ==
    [stage |-> "idle", repoURL |-> EmptyString, filePath |-> "",
     tried |-> << >>, responses |-> << >>, tempDir |-> "none", content |-> "",
     err |-> [msg |-> "nil", cause |-> "nil"], cut |-> FALSE, expired |-> FALSE]

\* no helper function has been called
NoHelper ==
    [stage |-> "idle", text |-> << >>, orig |-> << >>, value |-> {}, first |-> {},
     pipeline |-> << >>, err |-> FALSE,
     obj |-> [isNil |-> TRUE, keys |-> {}], key |-> "", last |-> "none"]

AuxIdle ==
    /\ other = NoCall
    /\ http = NoRequest
    /\ fetch = NoFetch
    /\ helper = NoHelper
    /\ config = DefaultConfig

(***************************************************************************)
(* The state machine: one call of ValidateParams or of Resolve.            *)
(***************************************************************************)
Init ==
    /\ params \in ParamLists
    /\ pc = "init"
    /\ repository = EmptyString
    /\ path = EmptyString
    /\ templateData = << >>
    /\ templateContent = EmptyString
    /\ fetchCalls = << >>
    /\ events = << >>
    /\ result = NoResource
    /\ err = NoError
    /\ yamlLog = "none"
    /\ camelIn = EmptyString
    /\ camelOut = EmptyString
    /\ AuxIdle

\* ValidateParams(ctx, params)
ValidateCall ==
    /\ pc = "init"
    /\ pc' = "validated"
    /\ err' = ValidateParams(params)
    /\ events' = Append(events, "validate")
    /\ UNCHANGED <<params, repository, path, templateData, templateContent,
                   fetchCalls, result, yamlLog, camelIn, camelOut, aux>>

\* Resolve, up to the call of the fetcher
ResolveExtract ==
    /\ pc = "init"
    /\ LET x == ExtractRequired(params)
       IN  /\ repository' = x.repository
           /\ path' = x.path
           /\ templateData' = x.data
    /\ pc' = "fetch"
    /\ events' = Append(events, "extract")
    /\ UNCHANGED <<params, templateContent, fetchCalls, result, err, yamlLog,
                   camelIn, camelOut, aux>>

\* r.fetcher.FetchTemplate(repository, path) returns a template
ResolveFetchOk ==
    /\ pc = "fetch"
    /\ \E t \in Templates : templateContent' = t
    /\ fetchCalls' = Append(fetchCalls, << repository, path >>)
    /\ events' = Append(events, "fetch")
    /\ pc' = "normalize"
    /\ UNCHANGED <<params, repository, path, templateData, result, err, yamlLog,
                   camelIn, camelOut, aux>>

\* a variant that goes on after the fetcher's error
ResolveFetchFailIgnored ==
    /\ pc = "fetch"
    /\ fetchCalls' = Append(fetchCalls, << repository, path >>)
    /\ events' = Append(events, "fetch")
    /\ pc' = "normalize"
    /\ err' = ErrFetch
    /\ UNCHANGED <<params, repository, path, templateData, templateContent,
                   result, yamlLog, camelIn, camelOut, aux>>

\* r.fetcher.FetchTemplate(repository, path) returns an error
ResolveFetchFail ==
    /\ pc = "fetch"
    /\ fetchCalls' = Append(fetchCalls, << repository, path >>)
    /\ events' = Append(events, "fetch")
    /\ pc' = "done"
    /\ result' = NoResource
    /\ err' = ErrFetch
    /\ UNCHANGED <<params, repository, path, templateData, templateContent,
                   yamlLog, camelIn, camelOut, aux>>

\* the loop over all parameters
ResolveNormalize ==
    /\ pc = "normalize"
    /\ templateData' = ProcessParams(templateData, params)
    /\ events' = Append(events, "normalize")
    /\ pc' = "render"
    /\ UNCHANGED <<params, repository, path, templateContent, fetchCalls,
                   result, err, yamlLog, camelIn, camelOut, aux>>

\* a variant that returns what was rendered together with the error
ResolveRenderPartial ==
    /\ pc = "render"
    /\ LET r == renderTemplate(templateContent, templateData)
       IN  /\ result' = NewResource(r.out, repository, path)
           /\ err' = IF r.err THEN ErrRender ELSE NoError
           /\ yamlLog' = IF r.err THEN "none"
                         ELSE IF YamlUnmarshalAny(r.out).err THEN "failed" ELSE "passed"
    /\ events' = Append(events, "expand")
    /\ pc' = "done"
    /\ UNCHANGED <<params, repository, path, templateData, templateContent,
                   fetchCalls, camelIn, camelOut, aux>>

\* renderTemplate, the final validation and the return
ResolveRender ==
    /\ pc = "render"
    /\ LET r == renderTemplate(templateContent, templateData)
       IN  IF r.err
           THEN /\ result' = NoResource
                /\ err' = ErrRender
                /\ yamlLog' = "none"
           ELSE /\ result' = NewResource(r.out, repository, path)
                /\ err' = NoError
                /\ yamlLog' = IF YamlUnmarshalAny(r.out).err THEN "failed" ELSE "passed"
    /\ events' = Append(events, "expand")
    /\ pc' = "done"
    /\ UNCHANGED <<params, repository, path, templateData, templateContent,
                   fetchCalls, camelIn, camelOut, aux>>

Next ==
    \/ ValidateCall
    \/ ResolveExtract
    \/ ResolveFetchOk
    \/ ResolveFetchFail
    \/ ResolveNormalize
    \/ ResolveRender

Spec == Init /\ [][Next]_vars

(***************************************************************************)
(* Two Resolve calls on the same resolver, interleaved step by step.  The  *)
(* first call is the machine above; the second keeps its locals in the     *)
(* record other.  The resolver's only field is the fetcher.                *)
(***************************************************************************)
ConcPool ==
    { StringParam(RepositoryParam, << "r1" >>),
      StringParam(PathParam, << "p1" >>),
      StringParam(Foo, << "bar" >>),
      ArrayParam(Foo, << << "ya" >>, << "yb" >> >>) }

ConcLists == UNION { [1..n -> ConcPool] : n \in 0..MaxParams }

OtherLists ==
    { << StringParam(RepositoryParam, << "r2" >>), StringParam(PathParam, << "p2" >>),
         ArrayParam(Foo, << << "yb" >> >>) >>,
      << StringParam(RepositoryParam, << "r2" >>), StringParam(FooCap, << "baz" >>) >>,
      << StringParam(PathParam, << "p2" >>) >> }

OtherTemplates == { << "yk", "{{.Foo}}" >>, << "{{range .FooNames}}" >> }

InitConc ==
    /\ params \in ConcLists
    /\ pc = "init"
    /\ repository = EmptyString
    /\ path = EmptyString
    /\ templateData = << >>
    /\ templateContent = EmptyString
    /\ fetchCalls = << >>
    /\ events = << >>
    /\ result = NoResource
    /\ err = NoError
    /\ yamlLog = "none"
    /\ camelIn = EmptyString
    /\ camelOut = EmptyString
    /\ \E ps \in OtherLists : other = [NoCall EXCEPT !.params = ps, !.pc = "init"]
    /\ http = NoRequest
    /\ fetch = NoFetch
    /\ helper = NoHelper
    /\ config = DefaultConfig

\* the variables the second call never touches
firstCall == <<params, pc, repository, path, templateData, templateContent,
               events, result, err, yamlLog, camelIn, camelOut, http, fetch, helper,
               config>>

\* second call: Resolve, up to the call of the fetcher
OtherExtract ==
    /\ other.pc = "init"
    /\ LET x == ExtractRequired(other.params)
       IN  other' = [other EXCEPT !.repository = x.repository, !.path = x.path,
                                  !.templateData = x.data, !.pc = "fetch"]
    /\ UNCHANGED <<firstCall, fetchCalls>>

\* second call: the fetcher returns a template
OtherFetchOk ==
    /\ other.pc = "fetch"
    /\ \E t \in OtherTemplates :
          other' = [other EXCEPT !.templateContent = t, !.pc = "normalize"]
    /\ fetchCalls' = Append(fetchCalls, << other.repository, other.path >>)
    /\ UNCHANGED firstCall

\* second call: the fetcher returns an error
OtherFetchFail ==
    /\ other.pc = "fetch"
    /\ other' = [other EXCEPT !.result = NoResource, !.err = ErrFetch, !.pc = "done"]
    /\ fetchCalls' = Append(fetchCalls, << other.repository, other.path >>)
    /\ UNCHANGED firstCall

\* a variant whose namespace is a field of the resolver, shared by the calls
OtherNormalizeShared ==
    /\ other.pc = "normalize"
    /\ other' = [other EXCEPT
                   !.templateData = ProcessParams(templateData, other.params),
                   !.pc = "render"]
    /\ UNCHANGED <<firstCall, fetchCalls>>

Reverse(q) == [i \in 1..Len(q) |-> q[Len(q) + 1 - i]]

\* a variant that gathers the names of the tasks by ranging over a map, so
\* that they come in the order of one visit or of another
OtherNormalizeMapOrder ==
    /\ other.pc = "normalize"
    /\ \E reversed \in BOOLEAN :
          LET data == ProcessParams(other.templateData, other.params)
          IN  other' = [other EXCEPT
                          !.templateData =
                              [k \in DOMAIN data |->
                                  IF reversed /\ data[k].t = "[]string"
                                  THEN [data[k] EXCEPT !.l = Reverse(data[k].l)]
                                  ELSE data[k]],
                          !.pc = "render"]
    /\ UNCHANGED <<firstCall, fetchCalls>>

\* second call: the loop over all parameters
OtherNormalize ==
    /\ other.pc = "normalize"
    /\ other' = [other EXCEPT
                   !.templateData = ProcessParams(other.templateData, other.params),
                   !.pc = "render"]
    /\ UNCHANGED <<firstCall, fetchCalls>>

\* second call: renderTemplate and the return
OtherRender ==
    /\ other.pc = "render"
    /\ LET r == renderTemplate(other.templateContent, other.templateData)
       IN  other' = IF r.err
                    THEN [other EXCEPT !.result = NoResource, !.err = ErrRender,
                                       !.pc = "done"]
                    ELSE [other EXCEPT
                            !.result = NewResource(r.out, other.repository, other.path),
                            !.err = NoError, !.pc = "done"]
    /\ UNCHANGED <<firstCall, fetchCalls>>

NextConc ==
    \/ Next
    \/ OtherExtract
    \/ OtherFetchOk
    \/ OtherFetchFail
    \/ OtherNormalize
    \/ OtherRender

SpecConc == InitConc /\ [][NextConc]_vars

\* two calls of Resolve with equal parameter lists
InitTwice ==
    /\ params \in ConcLists
    /\ pc = "init"
    /\ repository = EmptyString
    /\ path = EmptyString
    /\ templateData = << >>
    /\ templateContent = EmptyString
    /\ fetchCalls = << >>
    /\ events = << >>
    /\ result = NoResource
    /\ err = NoError
    /\ yamlLog = "none"
    /\ camelIn = EmptyString
    /\ camelOut = EmptyString
    /\ other = [NoCall EXCEPT !.params = params, !.pc = "init"]
    /\ http = NoRequest
    /\ fetch = NoFetch
    /\ helper = NoHelper
    /\ config = DefaultConfig

SpecTwice == InitTwice /\ [][NextConc]_vars

(***************************************************************************)
(* The standalone server: the handler of /resolve (runStandalone).  The    *)
(* handler calls ValidateParams and then Resolve, which runs as the        *)
(* machine above.                                                          *)
(***************************************************************************)
StatusOK == 200
StatusBadRequest == 400
StatusMethodNotAllowed == 405
StatusInternalServerError == 500

Methods == {"GET", "POST"}

\* what io.ReadAll and json.Unmarshal make of the body
Bodies == {"unreadable", "garbage", "json"}

HttpPool ==
    { StringParam(RepositoryParam, << "r1" >>),
      StringParam(PathParam, << "p1" >>),
      StringParam(Foo, << "bar" >>),
      ArrayParam(Foo, << << "ya" >>, << "yb" >> >>) }

HttpLists == UNION { [1..n -> HttpPool] : n \in 0..MaxParams }

\* http.Error(w, msg, code)
HttpError(h, msg, code) ==
    [h EXCEPT !.stage = "responded", !.status = code,
              !.contentType = "text/plain; charset=utf-8", !.written = << msg >>]

InitHttp ==
    /\ params = << >>
    /\ pc = "idle"
    /\ repository = EmptyString
    /\ path = EmptyString
    /\ templateData = << >>
    /\ templateContent = EmptyString
    /\ fetchCalls = << >>
    /\ events = << >>
    /\ result = NoResource
    /\ err = NoError
    /\ yamlLog = "none"
    /\ camelIn = EmptyString
    /\ camelOut = EmptyString
    /\ other = NoCall
    /\ \E m \in Methods, b \in Bodies, ps \in HttpLists :
          http = [NoRequest EXCEPT !.stage = "received", !.method = m, !.body = b,
                    !.parameters = IF b = "json" THEN ps ELSE << >>]
    /\ fetch = NoFetch
    /\ helper = NoHelper
    /\ config = DefaultConfig

resolveCall == <<params, pc, repository, path, templateData, templateContent,
                 fetchCalls, events, result, err, yamlLog, camelIn, camelOut>>

\* a variant of the handler that switches debug logging on for a request
HttpDecodeSetsDebug ==
    /\ http.stage = "received"
    /\ http' = IF http.method # "POST"
               THEN HttpError(http, "Method not allowed", StatusMethodNotAllowed)
               ELSE IF http.body = "unreadable"
               THEN HttpError(http, "Failed to read request body", StatusBadRequest)
               ELSE IF http.body = "garbage"
               THEN HttpError(http, "Failed to parse request", StatusBadRequest)
               ELSE [http EXCEPT !.stage = "decoded"]
    /\ config' = [config EXCEPT !.debugMode = TRUE]
    /\ UNCHANGED <<resolveCall, other, fetch, helper>>

\* the handler up to the decoded request
HttpDecode ==
    /\ http.stage = "received"
    /\ http' = IF http.method # "POST"
               THEN HttpError(http, "Method not allowed", StatusMethodNotAllowed)
               ELSE IF http.body = "unreadable"
               THEN HttpError(http, "Failed to read request body", StatusBadRequest)
               ELSE IF http.body = "garbage"
               THEN HttpError(http, "Failed to parse request", StatusBadRequest)
               ELSE [http EXCEPT !.stage = "decoded"]
    /\ UNCHANGED <<resolveCall, other, fetch, helper, config>>

\* a variant that goes on to Resolve after a validation error
HttpValidateNoReturn ==
    /\ http.stage = "decoded"
    /\ http' = [http EXCEPT !.stage = "resolving",
                            !.calls = http.calls \o << "ValidateParams", "Resolve" >>]
    /\ params' = http.parameters
    /\ pc' = "init"
    /\ UNCHANGED <<repository, path, templateData, templateContent, fetchCalls,
                   events, result, err, yamlLog, camelIn, camelOut,
                   other, fetch, helper, config>>

\* resolver.ValidateParams, then the call of resolver.Resolve
HttpValidate ==
    /\ http.stage = "decoded"
    /\ IF ValidateParams(http.parameters) # NoError
       THEN /\ http' = [HttpError(http, "Invalid parameters", StatusBadRequest)
                          EXCEPT !.calls = Append(http.calls, "ValidateParams")]
            /\ UNCHANGED <<params, pc>>
       ELSE /\ http' = [http EXCEPT !.stage = "resolving",
                          !.calls = http.calls \o << "ValidateParams", "Resolve" >>]
            /\ params' = http.parameters
            /\ pc' = "init"
    /\ UNCHANGED <<repository, path, templateData, templateContent, fetchCalls,
                   events, result, err, yamlLog, camelIn, camelOut,
                   other, fetch, helper, config>>

\* Resolve has returned: the error answer or the document
HttpRespond ==
    /\ http.stage = "resolving"
    /\ pc = "done"
    /\ http' = IF err # NoError
               THEN HttpError(http, "Failed to resolve template",
                              StatusInternalServerError)
               ELSE [http EXCEPT !.stage = "responded", !.status = StatusOK,
                                 !.contentType = "application/yaml",
                                 !.written = Data(result)]
    /\ UNCHANGED <<resolveCall, other, fetch, helper, config>>

NextHttp ==
    \/ HttpDecode
    \/ HttpValidate
    \/ ResolveExtract
    \/ ResolveFetchOk
    \/ ResolveFetchFail
    \/ ResolveNormalize
    \/ ResolveRender
    \/ HttpRespond

SpecHttp == InitHttp /\ [][NextHttp]_vars

(***************************************************************************)
(* The fetcher: gitTemplateFetcher.FetchTemplate.  A URL is the sequence   *)
(* of its parts between slashes (strings.Split(repoURL, "/")).  An error   *)
(* is its message together with the error wrapped by %w ("nil" if none).   *)
(***************************************************************************)
GistPrefix == << "https:", "", "gist.github.com" >>
GitHubPrefix == << "https:", "", "github.com" >>

\* strings.HasPrefix(repoURL, prefix + "/")
HasPrefix(url, prefix) ==
    /\ Len(url) > Len(prefix)
    /\ SubSeq(url, 1, Len(prefix)) = prefix

RepoURLs ==
    { << "https:", "", "gist.github.com", "user", "gistid" >>,
      << "https:", "", "gist.github.com", "user" >>,
      << "https:", "", "github.com", "org", "repo" >>,
      << "https:", "", "gitlab.com", "org", "repo" >>,
      << "git@github.com:org", "repo.git" >> }

FilePaths == { "pipeline.yaml", "dir/pipeline.yaml", "missing.yaml" }

\* outcomes of client.Get, io.ReadAll, os.MkdirTemp, cmd.Run and os.ReadFile
GetOutcomes == { "200", "404", "500", "refused", "timeout" }
ReadOutcomes == { "ok", "reset", "timeout" }
RunOutcomes == { "ok", "failed", "deadline", "failed-late" }
CloseOutcomes == { "ok", "fail" }
RemoveOutcomes == { "ok", "fail" }

\* the deferred os.RemoveAll(tempDir): it runs when the call returns, and its
\* error is assigned to a local that is no result of the function
RemoveTempDir(f, outcome) ==
    [f EXCEPT !.tempDir = IF outcome = "ok" THEN "removed" ELSE "left"]

\* return "", fmt.Errorf(msg) or fmt.Errorf(msg + ": %w", cause)
FetchError(f, msg, cause) ==
    [f EXCEPT !.stage = "returned", !.content = "",
              !.err = [msg |-> msg, cause |-> cause],
              !.cut = (cause = "timeout" \/ msg = "git clone timed out"),
              !.expired = (cause = "timeout" \/ msg = "git clone timed out")]

\* return string(content), nil
FetchReturn(f) == [f EXCEPT !.stage = "returned", !.content = "text"]

\* what follows a client.Get whose answer is not a 404 on the first gist try
AfterGet(f, rawURL, outcome, what) ==
    LET g == [f EXCEPT !.tried = Append(f.tried, rawURL),
                       !.responses = IF outcome \in { "refused", "timeout" }
                                     THEN f.responses
                                     ELSE Append(f.responses, outcome)]
    IN  IF outcome \in { "refused", "timeout" }
        THEN FetchError(g, "failed to fetch " \o what, outcome)
        ELSE IF outcome # "200"
        THEN FetchError(g, "HTTP error fetching: " \o outcome, "nil")
        ELSE [g EXCEPT !.stage = "body"]

InitFetch ==
    /\ params = << >>
    /\ pc = "idle"
    /\ repository = EmptyString
    /\ path = EmptyString
    /\ templateData = << >>
    /\ templateContent = EmptyString
    /\ fetchCalls = << >>
    /\ events = << >>
    /\ result = NoResource
    /\ err = NoError
    /\ yamlLog = "none"
    /\ camelIn = EmptyString
    /\ camelOut = EmptyString
    /\ other = NoCall
    /\ http = NoRequest
    /\ \E u \in RepoURLs, p \in FilePaths :
          fetch = [NoFetch EXCEPT !.stage = "called", !.repoURL = u, !.filePath = p]
    /\ helper = NoHelper
    /\ config = DefaultConfig

notFetch == <<params, pc, repository, path, templateData, templateContent,
              fetchCalls, events, result, err, yamlLog, camelIn, camelOut,
              other, http, helper, config>>

\* a variant that tries the single-file URL after every answer but a 200
FetchGistRetryAlways ==
    /\ fetch.stage = "called"
    /\ HasPrefix(fetch.repoURL, GistPrefix)
    /\ IF Len(fetch.repoURL) < 5
       THEN fetch' = FetchError(fetch, "invalid Gist URL format", "nil")
       ELSE \E outcome \in GetOutcomes, close \in CloseOutcomes :
               LET rawURL == << "gist-raw", fetch.repoURL[4], fetch.repoURL[5],
                                fetch.filePath >>
                   got == [fetch EXCEPT !.tried = Append(fetch.tried, rawURL),
                                        !.responses = Append(fetch.responses, outcome)]
               IN  fetch' = IF outcome \in { "404", "500" }
                            THEN IF close = "ok"
                                 THEN [got EXCEPT !.stage = "single-file"]
                                 ELSE FetchError(got, "failed to close response body", "close")
                            ELSE AfterGet(fetch, rawURL, outcome, "gist")
    /\ UNCHANGED notFetch

\* the Gist branch up to the first client.Get and, after a 404, the
\* resp.Body.Close() that precedes the second try
FetchGist ==
    /\ fetch.stage = "called"
    /\ HasPrefix(fetch.repoURL, GistPrefix)
    /\ IF Len(fetch.repoURL) < 5
       THEN fetch' = FetchError(fetch, "invalid Gist URL format", "nil")
       ELSE \E outcome \in GetOutcomes, close \in CloseOutcomes :
               LET rawURL == << "gist-raw", fetch.repoURL[4], fetch.repoURL[5],
                                fetch.filePath >>
                   got == [fetch EXCEPT !.tried = Append(fetch.tried, rawURL),
                                        !.responses = Append(fetch.responses, outcome)]
               IN  fetch' = IF outcome = "404"
                            THEN IF close = "ok"
                                 THEN [got EXCEPT !.stage = "single-file"]
                                 ELSE FetchError(got, "failed to close response body", "close")
                            ELSE AfterGet(fetch, rawURL, outcome, "gist")
    /\ UNCHANGED notFetch

\* the second client.Get, for a single-file gist
FetchSingleFileGist ==
    /\ fetch.stage = "single-file"
    /\ \E outcome \in GetOutcomes :
          fetch' = AfterGet(fetch, << "gist-raw", fetch.repoURL[4], fetch.repoURL[5], "" >>,
                            outcome, "single-file gist")
    /\ UNCHANGED notFetch

\* the GitHub branch up to client.Get
FetchGitHub ==
    /\ fetch.stage = "called"
    /\ ~HasPrefix(fetch.repoURL, GistPrefix)
    /\ HasPrefix(fetch.repoURL, GitHubPrefix)
    /\ \E outcome \in GetOutcomes :
          fetch' = AfterGet(fetch,
                            << "github-raw" >> \o SubSeq(fetch.repoURL, 4, Len(fetch.repoURL))
                               \o << config.gitDefaultBranch, fetch.filePath >>,
                            outcome, "GitHub file")
    /\ UNCHANGED notFetch

\* io.ReadAll(resp.Body) and the return, on both HTTP branches
FetchReadBody ==
    /\ fetch.stage = "body"
    /\ \E outcome \in ReadOutcomes :
          fetch' = IF outcome = "ok" THEN FetchReturn(fetch)
                   ELSE FetchError(fetch, "failed to read content", outcome)
    /\ UNCHANGED notFetch

\* a variant that does not look at ctx.Err() after a failed clone
FetchGitCloneUnchecked ==
    /\ fetch.stage = "called"
    /\ ~HasPrefix(fetch.repoURL, GistPrefix)
    /\ ~HasPrefix(fetch.repoURL, GitHubPrefix)
    /\ \E mkdir \in { "ok", "fail" }, run \in RunOutcomes, remove \in RemoveOutcomes :
          fetch' = IF mkdir = "fail"
                   THEN FetchError(fetch, "failed to create temp directory", "mkdir")
                   ELSE IF run = "ok"
                   THEN [fetch EXCEPT !.stage = "cloned", !.tempDir = "exists",
                                      !.tried = Append(fetch.tried, fetch.repoURL)]
                   ELSE RemoveTempDir(
                          [FetchError(fetch, "git clone failed",
                                      IF run = "deadline" THEN "signal: killed"
                                      ELSE "exit status 128")
                             EXCEPT !.tried = Append(fetch.tried, fetch.repoURL),
                                    !.cut = (run = "deadline"),
                                    !.expired = (run # "failed")], remove)
    /\ UNCHANGED notFetch

\* the clone branch: os.MkdirTemp and git clone under the resolution timeout
FetchGitClone ==
    /\ fetch.stage = "called"
    /\ ~HasPrefix(fetch.repoURL, GistPrefix)
    /\ ~HasPrefix(fetch.repoURL, GitHubPrefix)
    /\ \E mkdir \in { "ok", "fail" }, run \in RunOutcomes, remove \in RemoveOutcomes :
          fetch' = IF mkdir = "fail"
                   THEN FetchError(fetch, "failed to create temp directory", "mkdir")
                   ELSE IF run = "ok"
                   THEN [fetch EXCEPT !.stage = "cloned", !.tempDir = "exists",
                                      !.tried = Append(fetch.tried, fetch.repoURL)]
                   ELSE IF run \in { "deadline", "failed-late" }
                   THEN RemoveTempDir(
                          [FetchError(fetch, "git clone timed out", "nil")
                             EXCEPT !.tried = Append(fetch.tried, fetch.repoURL),
                                    !.cut = (run = "deadline")], remove)
                   ELSE RemoveTempDir(
                          [FetchError(fetch, "git clone failed", "exit status 128")
                             EXCEPT !.tried = Append(fetch.tried, fetch.repoURL)], remove)
    /\ UNCHANGED notFetch

\* os.ReadFile of the requested file in the clone
FetchReadFile ==
    /\ fetch.stage = "cloned"
    /\ \E outcome \in { "ok", "missing" }, remove \in RemoveOutcomes :
          fetch' = RemoveTempDir(IF outcome = "ok" THEN FetchReturn(fetch)
                                 ELSE FetchError(fetch, "failed to read file", "no such file"),
                                 remove)
    /\ UNCHANGED notFetch

NextFetch ==
    \/ FetchGist
    \/ FetchSingleFileGist
    \/ FetchGitHub
    \/ FetchReadBody
    \/ FetchGitClone
    \/ FetchReadFile

SpecFetch == InitFetch /\ [][NextFetch]_vars

(***************************************************************************)
(* The template helper functions (the funcMap of renderTemplate).  Here a  *)
(* text is the sequence of its lines; a line is its number of leading      *)
(* spaces, whether "- " follows them, its key ("" if none) and its scalar  *)
(* ("" if none): "  - name: a" is [ind 2, dash, key name, val s:a].  A     *)
(* parsed value is the set of its leaves, each with its path of map keys   *)
(* and sequence indices; nil is the empty set.  Block sequences are        *)
(* indented under their key in the texts considered.                       *)
(***************************************************************************)
Line(ind, dash, key, val) == [ind |-> ind, dash |-> dash, key |-> key, val |-> val]

IsBlank(line) == ~line.dash /\ line.key = "" /\ line.val = ""

IndexNames == << "#1", "#2", "#3", "#4" >>

\* the keys of the texts considered, in the order of sort.Strings
KeyOrder == << "error", "k", "name", "params", "taskRef" >>

ParseError == { << << "!" >>, "error" >> }

Least(S) == CHOOSE x \in S : \A y \in S : x <= y

\* yaml.Unmarshal of a block of lines without blank lines
RECURSIVE ParseBlock(_, _)
ParseBlock(lines, prefix) ==
    LET base == lines[1].ind
        starts == { i \in DOMAIN lines : lines[i].ind = base }
        BlockOf(i) ==
            LET later == { j \in starts : j > i }
            IN  SubSeq(lines, i, IF later = {} THEN Len(lines) ELSE Least(later) - 1)
        Rank(i) == Cardinality({ j \in starts : j <= i })
    IN  IF \E i \in DOMAIN lines : lines[i].ind < base THEN ParseError
        ELSE IF lines[1].dash
        THEN IF (\E i \in starts : ~lines[i].dash) \/ Cardinality(starts) > Len(IndexNames)
             THEN ParseError
             ELSE UNION { LET b == BlockOf(i)
                              item == Append(prefix, IndexNames[Rank(i)])
                              head == [b[1] EXCEPT !.dash = FALSE, !.ind = base + 2]
                          IN  IF head.key = ""
                              THEN IF Len(b) = 1 THEN { << item, head.val >> }
                                   ELSE ParseError
                              ELSE ParseBlock(<< head >> \o Tail(b), item)
                        : i \in starts }
        ELSE IF lines[1].key = ""
        THEN IF \E i \in DOMAIN lines : lines[i].key # "" THEN ParseError
             ELSE { << prefix, IF Len(lines) = 1 THEN lines[1].val ELSE "s:folded" >> }
        ELSE IF \E i \in starts : lines[i].dash \/ lines[i].key = "" THEN ParseError
        ELSE IF \E i, j \in starts : i # j /\ lines[i].key = lines[j].key THEN ParseError
        ELSE UNION { LET b == BlockOf(i)
                         k == Append(prefix, b[1].key)
                     IN  IF b[1].val # ""
                         THEN IF Len(b) = 1 THEN { << k, b[1].val >> } ELSE ParseError
                         ELSE IF Len(b) = 1 THEN { << k, "null" >> }
                         ELSE ParseBlock(Tail(b), k)
                   : i \in starts }

\* the helper fromYAML
fromYAML(text) ==
    LET lines == SelectSeq(text, LAMBDA l : ~IsBlank(l))
    IN  IF lines = << >> THEN {}
        ELSE LET v == ParseBlock(lines, << >>)
             IN  IF \E e \in v : e[1] = << "!" >>
                 THEN { << << "error" >>, "s:Error parsing YAML" >> }
                 ELSE v

IsLeaf(tree, p) == \E e \in tree : e[1] = p
LeafAt(tree, p) == (CHOOSE e \in tree : e[1] = p)[2]

\* the keys or indices right under the node at prefix
Children(tree, prefix) ==
    { e[1][Len(prefix) + 1] :
        e \in { x \in tree : /\ Len(x[1]) > Len(prefix)
                             /\ SubSeq(x[1], 1, Len(prefix)) = prefix } }

\* yaml.Marshal: map keys sorted, what is under a key indented to the next
\* multiple of four, a map item's keys aligned after its dash
RECURSIVE MarshalAt(_, _, _)
MarshalAt(tree, prefix, ind) ==
    LET ch == Children(tree, prefix)
        Item(i) ==
            LET p == Append(prefix, IndexNames[i])
            IN  IF IsLeaf(tree, p) THEN << Line(ind, TRUE, "", LeafAt(tree, p)) >>
                ELSE LET sub == MarshalAt(tree, p, ind + 2)
                     IN  << [sub[1] EXCEPT !.ind = ind, !.dash = TRUE] >> \o Tail(sub)
        keys == SelectSeq(KeyOrder, LAMBDA k : k \in ch)
        Entry(k) ==
            LET p == Append(prefix, k)
            IN  IF IsLeaf(tree, p) THEN << Line(ind, FALSE, k, LeafAt(tree, p)) >>
                ELSE << Line(ind, FALSE, k, "") >>
                        \o MarshalAt(tree, p, 4 * ((ind + 4) \div 4))
    IN  IF IsLeaf(tree, prefix) THEN << Line(ind, FALSE, "", LeafAt(tree, prefix)) >>
        ELSE IF \E i \in DOMAIN IndexNames : IndexNames[i] \in ch
        THEN Concat([ i \in 1..Cardinality(ch) |-> Item(i) ])
        ELSE Concat([ i \in 1..Len(keys) |-> Entry(keys[i]) ])

\* strings.TrimPrefix(yamlStr, "- ")
TrimDashPrefix(lines) ==
    IF lines # << >> /\ lines[1].dash /\ lines[1].ind = 0
    THEN << [lines[1] EXCEPT !.dash = FALSE] >> \o Tail(lines)
    ELSE lines

\* a variant that removes every "- " of the text
TrimEveryDash(lines) == [ i \in DOMAIN lines |-> [lines[i] EXCEPT !.dash = FALSE] ]

\* the removal of the least indentation and strings.TrimSpace
Unindent(lines) ==
    LET text == { i \in DOMAIN lines : ~IsBlank(lines[i]) }
        minIndent == IF text = {} THEN 0 ELSE Least({ lines[i].ind : i \in text })
        cut == [ i \in DOMAIN lines |->
                   IF i \in text THEN [lines[i] EXCEPT !.ind = @ - minIndent]
                   ELSE lines[i] ]
        trimmed == SubSeq(cut, Least(text), CHOOSE i \in text : \A j \in text : j <= i)
    IN  IF text = {} THEN << >>
        ELSE << [trimmed[1] EXCEPT !.ind = 0] >> \o Tail(trimmed)

\* a variant of the helper toYAML
toYAMLEveryDash(obj) ==
    IF obj = {} THEN << >>
    ELSE Unindent(TrimEveryDash(MarshalAt(obj, << >>, 0)))

\* the helper toYAML
toYAML(obj) ==
    IF obj = {} THEN << >>
    ELSE Unindent(TrimDashPrefix(MarshalAt(obj, << >>, 0)))

\* the helper indent
indent(spaces, v) ==
    [ i \in DOMAIN v |-> IF IsBlank(v[i]) THEN v[i] ELSE [v[i] EXCEPT !.ind = @ + spaces] ]

\* the names template.Funcs registers
FuncMap == { "toJson", "fromYAML", "indent", "last", "typeIs", "toString", "toYAML" }

\* the texts handed to the helpers
HelperTexts ==
    { << Line(0, FALSE, "name", "s:a"),
         Line(0, FALSE, "taskRef", ""),
         Line(2, FALSE, "name", "s:b"),
         Line(0, FALSE, "params", ""),
         Line(2, TRUE, "", "s:x"),
         Line(2, TRUE, "", "i:1") >>,
      << Line(0, FALSE, "taskRef", ""),
         Line(2, FALSE, "params", ""),
         Line(4, TRUE, "name", "s:a"),
         Line(6, FALSE, "k", "i:1"),
         Line(4, TRUE, "name", "s:b"),
         Line(0, FALSE, "k", "i:1") >>,
      << Line(0, FALSE, "name", "s:test-trim-leading") >>,
      << Line(0, FALSE, "name", "s:a"),
         Line(0, FALSE, "", ""),
         Line(0, FALSE, "k", "") >>,
      << Line(0, TRUE, "name", "s:test"),
         Line(2, FALSE, "taskRef", ""),
         Line(4, FALSE, "name", "s:test-task") >>,
      << Line(0, TRUE, "", "s:a"),
         Line(0, TRUE, "", "s:b") >>,
      << Line(0, FALSE, "name", "s:a"),
         Line(2, FALSE, "k", "i:1") >>,
      << Line(0, FALSE, "", "s:plain") >>,
      << Line(0, FALSE, "name", "s:a"),
         Line(0, FALSE, "name", "s:b") >>,
      << Line(0, FALSE, "params", ""),
         Line(4, TRUE, "taskRef", ""),
         Line(8, FALSE, "name", "s:b"),
         Line(4, TRUE, "", "s:x") >>,
      << Line(0, FALSE, "", "") >>,
      << >> }

\* the pipelines of the templates: {{ .Text | indent 4 }} and
\* {{ .Text | indent 4 | trimLeading }}
Pipelines == { << "indent" >>, << "indent", "trimLeading" >> }

\* the place of a key in the lexical order of strings
Rank(k) == CHOOSE i \in DOMAIN KeyOrder : KeyOrder[i] = k

InsertSorted(sorted, k) ==
    LET before == SelectSeq(sorted, LAMBDA x : Rank(x) <= Rank(k))
        after == SelectSeq(sorted, LAMBDA x : Rank(x) > Rank(k))
    IN  before \o << k >> \o after

\* sort.Strings(keys)
RECURSIVE SortStrings(_)
SortStrings(keys) ==
    IF keys = << >> THEN << >>
    ELSE InsertSorted(SortStrings(SubSeq(keys, 1, Len(keys) - 1)), keys[Len(keys)])

\* the orders in which for k := range obj can visit the keys
RangeOrders(keys) ==
    { order \in [1..Cardinality(keys) -> keys] : { order[i] : i \in DOMAIN order } = keys }

\* a variant that takes the key visited last, without sorting
lastUnsorted(obj, order, key) ==
    IF obj.isNil THEN "false"
    ELSE IF Len(order) = 0 THEN "panic"
    ELSE IF order[Len(order)] = key THEN "true" ELSE "false"

\* the helper "last": keys[len(keys)-1] on no keys is an index out of range,
\* a runtime panic
last(obj, order, key) ==
    IF obj.isNil THEN "false"
    ELSE LET keys == SortStrings(order)
         IN  IF Len(keys) = 0 THEN "panic"
             ELSE IF keys[Len(keys)] = key THEN "true" ELSE "false"

LastKeys == { "k", "name", "params" }

\* a nil map and the maps, empty or not, with keys among LastKeys
LastMaps ==
    { [isNil |-> TRUE, keys |-> {}] } \cup { [isNil |-> FALSE, keys |-> ks] : ks \in SUBSET LastKeys }

InitHelpers ==
    /\ params = << >>
    /\ pc = "idle"
    /\ repository = EmptyString
    /\ path = EmptyString
    /\ templateData = << >>
    /\ templateContent = EmptyString
    /\ fetchCalls = << >>
    /\ events = << >>
    /\ result = NoResource
    /\ err = NoError
    /\ yamlLog = "none"
    /\ camelIn = EmptyString
    /\ camelOut = EmptyString
    /\ other = NoCall
    /\ http = NoRequest
    /\ fetch = NoFetch
    /\ \E t \in HelperTexts :
          helper = [NoHelper EXCEPT !.stage = "start", !.text = t, !.orig = t]
    /\ config = DefaultConfig

notHelper == <<params, pc, repository, path, templateData, templateContent,
               fetchCalls, events, result, err, yamlLog, camelIn, camelOut,
               other, http, fetch, config>>

\* indent applied to the text
HelperIndent ==
    /\ helper.stage = "start"
    /\ \E spaces \in { 2, 4 } :
          helper' = [helper EXCEPT !.stage = "indented", !.text = indent(spaces, helper.text),
                                   !.pipeline = << "indent" >>]
    /\ UNCHANGED notHelper

\* fromYAML applied to the text
HelperFromYAML ==
    /\ helper.stage \in { "start", "indented", "serialized" }
    /\ helper' = [helper EXCEPT
                    !.stage = IF helper.stage = "serialized" THEN "reparsed" ELSE "parsed",
                    !.value = fromYAML(helper.text),
                    !.first = IF helper.stage = "serialized" THEN helper.first
                              ELSE fromYAML(helper.text),
                    !.pipeline = Append(helper.pipeline, "fromYAML")]
    /\ UNCHANGED notHelper

\* toYAML applied to the parsed value
HelperToYAML ==
    /\ helper.stage = "parsed"
    /\ helper' = [helper EXCEPT !.stage = "serialized", !.text = toYAML(helper.value),
                                !.pipeline = Append(helper.pipeline, "toYAML")]
    /\ UNCHANGED notHelper

\* renderTemplate of a template that pipes the text through helpers:
\* template.Parse fails on a name that is not registered
HelperExpand ==
    /\ helper.stage = "start"
    /\ \E pl \in Pipelines :
          helper' = IF \E i \in DOMAIN pl : pl[i] \notin FuncMap
                    THEN [helper EXCEPT !.stage = "expanded", !.pipeline = pl,
                                        !.err = TRUE, !.text = << >>]
                    ELSE [helper EXCEPT !.stage = "expanded", !.pipeline = pl,
                                        !.text = indent(4, helper.text)]
    /\ UNCHANGED notHelper

\* renderTemplate of a template that calls last on a map and a key: a panic
\* of the function ends template.Execute with an error
HelperLast ==
    /\ helper.stage = "start"
    /\ \E obj \in LastMaps, key \in LastKeys :
          \E order \in RangeOrders(obj.keys) :
             helper' = [helper EXCEPT !.stage = "last", !.pipeline = << "last" >>,
                                      !.obj = obj, !.key = key,
                                      !.last = last(obj, order, key),
                                      !.err = (last(obj, order, key) = "panic")]
    /\ UNCHANGED notHelper

NextHelpers ==
    \/ HelperIndent
    \/ HelperFromYAML
    \/ HelperToYAML
    \/ HelperExpand
    \/ HelperLast

SpecHelpers == InitHelpers /\ [][NextHelpers]_vars

(***************************************************************************)
(* Resolve on parameter lists chosen for the parameter loop: scalars with  *)
(* and without the name marker, sequences whose elements are records, text *)
(* or both, under names with and without "steps".                          *)
(***************************************************************************)
NormPool ==
    { StringParam(Foo, << "bar" >>),
      StringParam(Foo, << "ya" >>),
      StringParam(Foo, << "[]", "#" >>),
      StringParam(Foo, << "-", "yk", "#" >>),
      StringParam(Foo, << "-", "y1" >>),
      StringParam(Foo, << "-", "ya", "-", "yb" >>),
      StringParam(FooNames, << "zz" >>),
      ArrayParam(Foo, << << "ya" >>, << "dev" >> >>),
      ArrayParam(Foo, << << "y1" >> >>),
      ArrayParam(Foo, << << "yk" >> >>),
      ArrayParam(Foo, << << "ya" >>, << "yb" >> >>),
      ArrayParam(Foo, << << "{", "Na", "}" >>, << "{", "K", "}" >> >>),
      ArrayParam(Steps, << << "{", "Na", "}" >>, << "{", "K", "}" >> >>),
      ArrayParam(Steps, << << "ya" >>, << "dev" >> >>) }

NormLists == UNION { [1..n -> NormPool] : n \in 0..MaxParams }

InitNorm ==
    /\ params \in NormLists
    /\ pc = "init"
    /\ repository = EmptyString
    /\ path = EmptyString
    /\ templateData = << >>
    /\ templateContent = EmptyString
    /\ fetchCalls = << >>
    /\ events = << >>
    /\ result = NoResource
    /\ err = NoError
    /\ yamlLog = "none"
    /\ camelIn = EmptyString
    /\ camelOut = EmptyString
    /\ AuxIdle

SpecNorm == InitNorm /\ [][Next]_vars

(***************************************************************************)
(* Calls whose lists repeat the required parameters and hold parameters    *)
(* whose names are close to theirs.                                        *)
(***************************************************************************)
ReqPool ==
    { StringParam(RepositoryParam, << "r1" >>),
      StringParam(RepositoryParam, << "r2" >>),
      ArrayParam(RepositoryParam, << << "ya" >> >>),
      StringParam(PathParam, << "p1" >>),
      StringParam(PathParam, << "p2" >>),
      StringParam(<< "R", "e", "p", "o", "s", "i", "t", "o", "r", "y" >>, << "bar" >>),
      StringParam(<< "-" >> \o PathParam, << "-", "ya", "-", "yb" >>),
      ArrayParam(Foo, << << "ya" >>, << "yb" >> >>) }

ReqLists == UNION { [1..n -> ReqPool] : n \in 0..MaxParams }

InitReq ==
    /\ params \in ReqLists
    /\ pc = "init"
    /\ repository = EmptyString
    /\ path = EmptyString
    /\ templateData = << >>
    /\ templateContent = EmptyString
    /\ fetchCalls = << >>
    /\ events = << >>
    /\ result = NoResource
    /\ err = NoError
    /\ yamlLog = "none"
    /\ camelIn = EmptyString
    /\ camelOut = EmptyString
    /\ AuxIdle

SpecReq == InitReq /\ [][Next]_vars

(***************************************************************************)
(* A second machine: calls of toCamelCase on arbitrary names.              *)
(***************************************************************************)
NameRunes == {"a", "B", "-", "1"}
Names == UNION { [1..n -> NameRunes] : n \in 0..MaxNameLen }

InitCamel ==
    /\ params = << >>
    /\ pc = "idle"
    /\ repository = EmptyString
    /\ path = EmptyString
    /\ templateData = << >>
    /\ templateContent = EmptyString
    /\ fetchCalls = << >>
    /\ events = << >>
    /\ result = NoResource
    /\ err = NoError
    /\ yamlLog = "none"
    /\ camelIn = EmptyString
    /\ camelOut = EmptyString
    /\ AuxIdle

\* toCamelCase(name)
DeriveIdentifier ==
    /\ \E name \in Names :
          /\ camelIn' = name
          /\ camelOut' = toCamelCase(name)
    /\ pc' = "derived"
    /\ UNCHANGED <<params, repository, path, templateData, templateContent,
                   fetchCalls, events, result, err, yamlLog, aux>>

NextCamel == DeriveIdentifier

SpecCamel == InitCamel /\ [][NextCamel]_vars

(***************************************************************************)
(* The process: main loads the configuration, then the process serves      *)
(* calls, as the standalone HTTP server or under the framework, and its    *)
(* fetcher is called.                                                      *)
(***************************************************************************)
ArgLists ==
    { << >>, << "-debug" >>, << "-standalone" >>, << "--standalone", "--debug" >>,
      << "-standalone", "-debug=false" >> }

Envs ==
    { [v \in { EnvDebug, EnvHTTPTimeout, EnvResolutionTimeout, EnvGitCloneDepth,
               EnvGitBranch } |-> Unset],
      (EnvDebug :> "true") @@ (EnvHTTPTimeout :> "10s") @@ (EnvResolutionTimeout :> "2m")
         @@ (EnvGitCloneDepth :> "5") @@ (EnvGitBranch :> "develop"),
      (EnvDebug :> "1") @@ (EnvHTTPTimeout :> "soon") @@ (EnvResolutionTimeout :> Unset)
         @@ (EnvGitCloneDepth :> "deep") @@ (EnvGitBranch :> "") }

InitProc ==
    /\ params = << >>
    /\ pc = "idle"
    /\ repository = EmptyString
    /\ path = EmptyString
    /\ templateData = << >>
    /\ templateContent = EmptyString
    /\ fetchCalls = << >>
    /\ events = << >>
    /\ result = NoResource
    /\ err = NoError
    /\ yamlLog = "none"
    /\ camelIn = EmptyString
    /\ camelOut = EmptyString
    /\ other = NoCall
    /\ http = NoRequest
    /\ fetch = NoFetch
    /\ helper = NoHelper
    /\ config = ZeroConfig

\* main, up to the point where it starts serving
Main ==
    /\ ~config.started
    /\ \E args \in ArgLists, env \in Envs : config' = LoadConfig(args, env)
    /\ UNCHANGED <<resolveCall, other, http, fetch, helper>>

\* runStandalone: the server receives a request on /resolve
ProcServe ==
    /\ config.started
    /\ config.standalone
    /\ http.stage = "idle"
    /\ fetch.stage = "idle"
    /\ \E m \in Methods, b \in Bodies, ps \in HttpLists :
          http' = [NoRequest EXCEPT !.stage = "received", !.method = m, !.body = b,
                     !.parameters = IF b = "json" THEN ps ELSE << >>]
    /\ UNCHANGED <<resolveCall, other, fetch, helper, config>>

\* sharedmain.Main: the framework hands a request to the resolver
ProcDispatch ==
    /\ config.started
    /\ ~config.standalone
    /\ pc = "idle"
    /\ fetch.stage = "idle"
    /\ \E ps \in HttpLists : params' = ps
    /\ pc' = "init"
    /\ UNCHANGED <<repository, path, templateData, templateContent, fetchCalls,
                   events, result, err, yamlLog, camelIn, camelOut, aux>>

\* the resolver's fetcher is called
ProcFetch ==
    /\ config.started
    /\ pc = "idle"
    /\ http.stage = "idle"
    /\ fetch.stage = "idle"
    /\ \E u \in RepoURLs, f \in FilePaths :
          fetch' = [NoFetch EXCEPT !.stage = "called", !.repoURL = u, !.filePath = f]
    /\ UNCHANGED notFetch

NextProc ==
    \/ Main
    \/ ProcServe
    \/ ProcDispatch
    \/ ProcFetch
    \/ (~config.standalone /\ ValidateCall)
    \/ NextHttp
    \/ NextFetch

SpecProc == InitProc /\ [][NextProc]_vars

(***************************************************************************)
(* Properties.                                                             *)
(***************************************************************************)
MissingRequired(ps) ==
    \/ \A i \in 1..Len(ps) : ps[i].Name # RepositoryParam
    \/ \A i \in 1..Len(ps) : ps[i].Name # PathParam

\* C1: ValidateParams returns an error if and only if no parameter is named
\* repository or no parameter is named path, whatever the kind or value of
\* the parameters in the list.
C1_RequiredParameterGate ==
    pc = "validated" => ((err # NoError) <=> MissingRequired(params))

\* a call that passes although a required name is carried by an array parameter
C1_Witness ==
    /\ pc = "validated"
    /\ err = NoError
    /\ Len(params) = 3
    /\ \E i \in 1..Len(params) :
          params[i].Name = PathParam /\ params[i].Value.Type = "array"

\* C2: a Resolve call whose parameter list lacks repository or path never
\* calls FetchTemplate and ends with a missing-required-parameter error.
C2_MissingRequiredFailsBeforeFetch ==
    (pc \in {"fetch", "normalize", "render", "done"} /\ MissingRequired(params))
        => /\ fetchCalls = << >>
           /\ pc = "done" => err \in {ErrMissingRepository, ErrMissingPath}

\* the identifier of a name, from its runes: the hyphens dropped, and a rune
\* upper-cased exactly when it starts the name or follows a hyphen
RECURSIVE PascalFrom(_, _)
PascalFrom(name, i) ==
    IF i > Len(name) THEN << >>
    ELSE (IF name[i] = "-" THEN << >>
          ELSE IF i = 1 \/ name[i - 1] = "-" THEN << ToUpper(name[i]) >>
          ELSE << name[i] >>)
         \o PascalFrom(name, i + 1)

OnlyHyphens(name) == \A i \in 1..Len(name) : name[i] = "-"

\* C10, as stated: toCamelCase returns, for every name, the segments joined
\* with the first rune of each upper-cased, and never the empty identifier.
C10_NeverEmptyIdentifier ==
    pc = "derived" => (camelOut = PascalFrom(camelIn, 1) /\ camelOut # EmptyString)

\* C10, amended: toCamelCase returns, for every name, the segments joined with
\* the first rune of each upper-cased; the identifier is empty exactly when
\* the name has no rune other than hyphens.
C10_IdentifierDerivation ==
    pc = "derived" =>
        /\ camelOut = PascalFrom(camelIn, 1)
        /\ (camelOut = EmptyString) <=> OnlyHyphens(camelIn)

\* a name of two segments, each capitalized on its first rune only
C10_Witness ==
    /\ pc = "derived"
    /\ camelIn = << "a", "a", "-", "a" >>
    /\ camelOut = << "A", "a", "A" >>

\* the namespace Resolve builds for a parameter list
Namespace(ps) == ProcessParams(ExtractRequired(ps).data, ps)

\* the namespace when the loop reaches parameter i
DataBefore(i) == ProcessParams(ExtractRequired(params).data, SubSeq(params, 1, i - 1))

RemoveAt(ps, j) == SubSeq(ps, 1, j - 1) \o SubSeq(ps, j + 1, Len(ps))

Normalized == \E e \in 1..Len(events) : events[e] = "normalize"

\* the loop dispatches on parameter i: it is not a required parameter and its
\* identifier is not in the namespace yet
Dispatched(i) ==
    /\ params[i].Name \notin {RepositoryParam, PathParam}
    /\ toCamelCase(params[i].Name) \notin DOMAIN DataBefore(i)

\* a text that is a task-like record: a map with a string name
TaskLike(text) ==
    LET u == YamlUnmarshalMap(text)
    IN  ~u.err /\ "name" \in DOMAIN u.map /\ IsString(u.map["name"])

RecordName(text) == StringOf(YamlUnmarshalMap(text).map["name"])

\* C3: when two parameters derive the same identifier, the namespace after
\* normalization is the one built without the later of the two: the later
\* parameter is skipped and changes no entry.
C3_FirstWriterWins ==
    Normalized =>
        \A i, j \in 1..Len(params) :
            (i < j /\ toCamelCase(params[i].Name) = toCamelCase(params[j].Name))
                => templateData = Namespace(RemoveAt(params, j))

\* C4: for a non-empty Sequence parameter with identifier X that the loop
\* dispatches on and whose elements are all task-like records, the namespace
\* holds under X+"Names" the records' names in source order and under
\* X+"Name" the last of them.
C4_CompanionEntries ==
    Normalized =>
        \A i \in 1..Len(params) :
            LET val == params[i].Value
                X == toCamelCase(params[i].Name)
            IN  (/\ val.Type = "array"
                 /\ val.ArrayVal # << >>
                 /\ \A k \in 1..Len(val.ArrayVal) : TaskLike(val.ArrayVal[k])
                 /\ Dispatched(i))
                => /\ (X \o NamesSuffix) \in DOMAIN templateData
                   /\ (X \o NameSuffix) \in DOMAIN templateData
                   /\ templateData[X \o NamesSuffix].t = "[]string"
                   /\ templateData[X \o NamesSuffix].l =
                          [ k \in 1..Len(val.ArrayVal) |-> RecordName(val.ArrayVal[k]) ]
                   /\ templateData[X \o NameSuffix].t = "string"
                   /\ templateData[X \o NameSuffix].s =
                          RecordName(val.ArrayVal[Len(val.ArrayVal)])

\* two task-like records a and b under foo: FooNames is [a, b], FooName is b
C4_Witness ==
    /\ pc = "done"
    /\ err = NoError
    /\ \E i \in 1..Len(params) :
          /\ params[i] = ArrayParam(Foo, << << "ya" >>, << "yb" >> >>)
          /\ Dispatched(i)
    /\ templateData[FooCap \o NamesSuffix].l = << << "a" >>, << "b" >> >>
    /\ templateData[FooCap \o NameSuffix].s = << "b" >>

\* C5: a non-empty Sequence parameter that the loop dispatches on and none of
\* whose elements is valid structured text adds exactly one namespace entry:
\* the raw string list under its identifier; and Resolve ends with no error
\* other than a fetch or an expansion error.
C5_GracefulDegradation ==
    /\ Normalized =>
          \A i \in 1..Len(params) :
              LET val == params[i].Value
              IN  (/\ val.Type = "array"
                   /\ val.ArrayVal # << >>
                   /\ \A k \in 1..Len(val.ArrayVal) : ~YamlParse(val.ArrayVal[k]).ok
                   /\ Dispatched(i))
                  => ProcessParam(DataBefore(i), params[i]) =
                         Put(DataBefore(i), toCamelCase(params[i].Name),
                             StringsValue(val.ArrayVal))
    /\ pc = "done" => err \in {NoError, ErrFetch, ErrRender}

\* the value Resolve uses for a required name: the string value of the last
\* parameter of that name, the empty string when there is none
RECURSIVE RequiredValue(_, _)
RequiredValue(ps, name) ==
    IF ps = << >> THEN EmptyString
    ELSE IF ps[Len(ps)].Name = name THEN ps[Len(ps)].Value.StringVal
    ELSE RequiredValue(SubSeq(ps, 1, Len(ps) - 1), name)

Count(log, e) == Cardinality({ i \in 1..Len(log) : log[i] = e })

\* C6: a Resolve call invokes the fetcher exactly once, with the repository
\* and path values, before normalization and before expansion; after a fetch
\* error neither normalization nor expansion runs.
C6_FetchOnceFirst ==
    /\ Len(fetchCalls) = Count(events, "fetch")
    /\ Len(fetchCalls) <= 1
    /\ pc \in {"normalize", "render", "done"} =>
          /\ Len(fetchCalls) = 1
          /\ fetchCalls[1] = << RequiredValue(params, RepositoryParam),
                                RequiredValue(params, PathParam) >>
    /\ \A i \in 1..Len(events) :
          events[i] \in {"normalize", "expand"} =>
              \E j \in 1..(i - 1) : events[j] = "fetch"
    /\ err = ErrFetch =>
          /\ Count(events, "normalize") = 0
          /\ Count(events, "expand") = 0
          /\ templateData = ExtractRequired(params).data

\* a call whose fetch failed, with r2 the last of two repository values
C6_Witness ==
    /\ pc = "done"
    /\ err = ErrFetch
    /\ fetchCalls = << << << "r2" >>, << "p1" >> >> >>
    /\ events = << "extract", "fetch" >>

\* C7: a Resolve call ends either with a document and a nil error, or with no
\* document and an error naming the phase that failed: the fetch when the
\* fetcher failed, the rendering when the expansion failed.
C7_DocumentOrError ==
    pc = "done" =>
        \/ /\ ~result.isNil
           /\ err = NoError
        \/ /\ result = NoResource
           /\ err = (IF Count(events, "expand") = 0 THEN ErrFetch ELSE ErrRender)

\* a call whose template failed to expand: ranging over a string entry
C7_Witness ==
    /\ pc = "done"
    /\ err = ErrRender
    /\ result.isNil
    /\ templateContent = << "{{range .FooNames}}" >>

\* the template has no syntax error and executes without error
ExpansionSucceeds ==
    /\ \A i \in 1..Len(templateContent) : templateContent[i] # "{{"
    /\ ~ExecuteTemplate(templateContent, templateData).err

\* C8: whenever the expansion succeeds, Resolve returns the expanded text,
\* unchanged, with a nil error, whether or not the text is a well-formed
\* structured document.
C8_ValidatorNeverBlocks ==
    (pc = "done" /\ Count(events, "expand") = 1 /\ ExpansionSucceeds) =>
        /\ err = NoError
        /\ ~result.isNil
        /\ Data(result) = ExecuteTemplate(templateContent, templateData).out

\* a rendered text that is not a structured document, returned all the same
C8_Witness ==
    /\ pc = "done"
    /\ yamlLog = "failed"
    /\ err = NoError
    /\ Data(result) = << "yk", "[", "dev", "@", "]" >>

\* C9: the source descriptor of a returned document has the repository value
\* passed to the fetcher as its URI, the path value passed to the fetcher as
\* its entry point, and the placeholder digest; the document has no
\* annotations.
C9_SourceDescriptor ==
    (pc = "done" /\ err = NoError) =>
        /\ RefSource(result).URI = fetchCalls[1][1]
        /\ RefSource(result).EntryPoint = fetchCalls[1][2]
        /\ DOMAIN RefSource(result).Digest = {"sha1"}
        /\ RefSource(result).Digest["sha1"] = "unknown"
        /\ DOMAIN Annotations(result) = {}

\* a document fetched from r2 at p1
C9_Witness ==
    /\ pc = "done"
    /\ err = NoError
    /\ RefSource(result).URI = << "r2" >>
    /\ RefSource(result).EntryPoint = << "p1" >>

\* what a Resolve call on ps returns when it runs alone and the fetcher gives
\* it the text fetched (or fails)
ResolveAlone(ps, fetched, fetchFailed) ==
    LET x == ExtractRequired(ps)
        r == renderTemplate(fetched, ProcessParams(x.data, ps))
    IN  IF fetchFailed THEN [result |-> NoResource, err |-> ErrFetch]
        ELSE IF r.err THEN [result |-> NoResource, err |-> ErrRender]
        ELSE [result |-> NewResource(r.out, x.repository, x.path), err |-> NoError]

SameOutcome(res, e, alone) ==
    /\ e = alone.err
    /\ res.isNil = alone.result.isNil
    /\ Data(res) = Data(alone.result)
    /\ RefSource(res).URI = RefSource(alone.result).URI
    /\ RefSource(res).EntryPoint = RefSource(alone.result).EntryPoint

\* C11: under every interleaving of two Resolve calls on one resolver, each
\* call that has returned has returned what it returns when run alone on its
\* own parameters with the same answer from the fetcher, and each call has
\* asked the fetcher for its own repository and path.
C11_NoInterference ==
    /\ (pc = "done" /\ Count(events, "validate") = 0) =>
          /\ SameOutcome(result, err,
                         ResolveAlone(params, templateContent, err = ErrFetch))
          /\ \E i \in 1..Len(fetchCalls) :
                fetchCalls[i] = << ExtractRequired(params).repository,
                                   ExtractRequired(params).path >>
    /\ other.pc = "done" =>
          /\ SameOutcome(other.result, other.err,
                         ResolveAlone(other.params, other.templateContent,
                                      other.err = ErrFetch))
          /\ \E i \in 1..Len(fetchCalls) :
                fetchCalls[i] = << ExtractRequired(other.params).repository,
                                   ExtractRequired(other.params).path >>

\* both calls have returned a document, the second fetched before the first,
\* and the two documents differ although both parameter lists name foo
C11_Witness ==
    /\ pc = "done" /\ err = NoError
    /\ other.pc = "done" /\ other.err = NoError
    /\ fetchCalls = << << << "r2" >>, << "p2" >> >>, << << "r1" >>, << "p1" >> >> >>
    /\ Data(result) = << "yk", "bar" >>
    /\ Data(other.result) = << "yk", "-", "yb" >>

\* C12: the /resolve handler answers 405 to a request that is not a POST and
\* 400 to a body it cannot read or parse, calling neither ValidateParams nor
\* Resolve; it calls ValidateParams before Resolve, each at most once; a
\* validation error gives 400 with no Resolve; a Resolve error gives 500;
\* otherwise one Resolve has run and the answer is 200, of type
\* application/yaml, carrying the rendered bytes.
C12_StandaloneEndpoint ==
    /\ http.calls \in { << >>, << "ValidateParams" >>, << "ValidateParams", "Resolve" >> }
    /\ Count(events, "extract") <= Count(http.calls, "Resolve")
    /\ http.stage = "responded" =>
          /\ Count(events, "extract") = Count(http.calls, "Resolve")
          /\ http.method # "POST" =>
                http.status = StatusMethodNotAllowed /\ http.calls = << >>
          /\ (http.method = "POST" /\ http.body # "json") =>
                http.status = StatusBadRequest /\ http.calls = << >>
          /\ (http.method = "POST" /\ http.body = "json"
                  /\ ValidateParams(http.parameters) # NoError) =>
                http.status = StatusBadRequest /\ http.calls = << "ValidateParams" >>
          /\ (Count(http.calls, "Resolve") = 1 /\ err # NoError) =>
                http.status = StatusInternalServerError
          /\ (Count(http.calls, "Resolve") = 1 /\ err = NoError) =>
                /\ http.status = StatusOK
                /\ http.contentType = "application/yaml"
                /\ http.written = Data(result)
          /\ http.status = StatusOK =>
                /\ http.calls = << "ValidateParams", "Resolve" >>
                /\ pc = "done" /\ err = NoError

\* a POST answered 200 with a rendered document
C12_Witness ==
    /\ http.stage = "responded"
    /\ http.status = StatusOK
    /\ http.written = << "yk", "bar" >>
    /\ http.contentType = "application/yaml"

\* errors.Is(err, context.DeadlineExceeded) through the %w chain, or the
\* message of the clone branch
IsTimedOutError(e) == e.cause = "timeout" \/ e.msg = "git clone timed out"

IsMapValue(v) ==
    /\ v # {}
    /\ \A e \in v : e[1] # << >> /\ e[1][1] \notin { "error", "#1", "#2", "#3", "#4" }

\* C14: for a text that parses to a map, parsing the text that toYAML makes
\* of the parsed value gives the parsed value again.
C14_RoundTrip ==
    (helper.stage = "reparsed" /\ IsMapValue(helper.first)) =>
        helper.value = helper.first

\* a map with a scalar field, a nested map and a sequence field, gone round
C14_Witness ==
    /\ helper.stage = "reparsed"
    /\ helper.value = { << << "name" >>, "s:a" >>,
                        << << "taskRef", "name" >>, "s:b" >>,
                        << << "params", "#1" >>, "s:x" >>,
                        << << "params", "#2" >>, "i:1" >> }
    /\ helper.text # helper.orig

\* C15: a template that pipes a text of zero indentation through indent 4 and
\* trimLeading expands without error, to the text.
C15_TrimLeadingInvertsIndent ==
    (/\ helper.stage = "expanded"
     /\ helper.pipeline = << "indent", "trimLeading" >>
     /\ \A i \in DOMAIN helper.orig : helper.orig[i].ind = 0) =>
        (~helper.err /\ helper.text = helper.orig)

\* what the loop's iteration on parameter i does to the namespace
StepOf(i) == ProcessParam(DataBefore(i), params[i])

\* the iteration on parameter i adds the raw value under the identifier and
\* nothing else
StoresRaw(i, raw) == StepOf(i) = Put(DataBefore(i), toCamelCase(params[i].Name), raw)

\* C16: a Sequence parameter that the loop dispatches on and one of whose
\* elements does not parse or is not a task-like record adds the raw list of
\* strings under its identifier and nothing else.
C16_SequenceAsAWhole ==
    Normalized =>
        \A i \in 1..Len(params) :
            LET val == params[i].Value
            IN  (/\ val.Type = "array"
                 /\ Dispatched(i)
                 /\ \E k \in 1..Len(val.ArrayVal) : ~TaskLike(val.ArrayVal[k]))
                => StoresRaw(i, StringsValue(val.ArrayVal))

\* a text that is a record with no string name: a map without a name field
\* or with a name that is not a string
NamelessRecord(text) ==
    LET u == YamlUnmarshalMap(text)
    IN  ~u.err /\ ~("name" \in DOMAIN u.map /\ IsString(u.map["name"]))

NamelessTask(task) == ~("name" \in DOMAIN task /\ IsString(task["name"]))

\* C17: a Sequence parameter whose elements are all records with no string
\* name, and a Scalar parameter that parses to records with no string name,
\* add the raw value under the identifier and nothing else.
C17_NameMustBeAString ==
    Normalized =>
        \A i \in 1..Len(params) :
            LET val == params[i].Value
                u == YamlUnmarshalTasks(val.StringVal)
            IN  /\ (/\ val.Type = "array"
                    /\ Dispatched(i)
                    /\ val.ArrayVal # << >>
                    /\ \A k \in 1..Len(val.ArrayVal) : NamelessRecord(val.ArrayVal[k]))
                   => StoresRaw(i, StringsValue(val.ArrayVal))
                /\ (/\ val.Type = "string"
                    /\ Dispatched(i)
                    /\ ~u.err
                    /\ Len(u.tasks) > 0
                    /\ \A k \in 1..Len(u.tasks) : NamelessTask(u.tasks[k]))
                   => StoresRaw(i, StringValue(val.StringVal))

\* the entries a parameter adds to an empty namespace, each with what
\* follows the parameter's identifier in its key
EntriesOf(param) ==
    LET d == ProcessParam(<< >>, param)
        X == toCamelCase(param.Name)
    IN  { << SubSeq(k, Len(X) + 1, Len(k)), d[k] >> : k \in DOMAIN d }

\* C18: two Sequence parameters with the same elements add the same entries,
\* whatever their names.
C18_DetectionIgnoresTheName ==
    Normalized =>
        \A i, j \in 1..Len(params) :
            (/\ params[i].Value.Type = "array"
             /\ params[j].Value.Type = "array"
             /\ params[i].Value.ArrayVal = params[j].Value.ArrayVal
             /\ Dispatched(i) /\ Dispatched(j))
            => EntriesOf(params[i]) = EntriesOf(params[j])

\* a Scalar parameter with the name marker that parses to no record at all
ParsesToNoTask(val) ==
    /\ val.Type = "string"
    /\ ContainsNameMarker(val.StringVal)
    /\ ~YamlUnmarshalTasks(val.StringVal).err
    /\ YamlUnmarshalTasks(val.StringVal).tasks = << >>

\* C19 as stated: such a parameter is stored as its original text.
C19_EmptyParseKeepsText ==
    Normalized =>
        \A i \in 1..Len(params) :
            (ParsesToNoTask(params[i].Value) /\ Dispatched(i))
                => StepOf(i)[toCamelCase(params[i].Name)] =
                       StringValue(params[i].Value.StringVal)

\* C19: a Scalar parameter with the name marker whose parse yields zero
\* records is stored under its identifier as the empty string, and adds
\* nothing else.
C19_EmptyParseStoresEmptyString ==
    Normalized =>
        \A i \in 1..Len(params) :
            (ParsesToNoTask(params[i].Value) /\ Dispatched(i))
                => StoresRaw(i, StringValue(EmptyString))

\* the text "[] # name:" under foo, stored as ""
C19_Witness ==
    /\ pc = "done"
    /\ params # << >>
    /\ params[1] = StringParam(Foo, << "[]", "#" >>)
    /\ FooCap \in DOMAIN templateData
    /\ templateData[FooCap] = StringValue(EmptyString)

\* a Scalar parameter without the name marker, or whose parse fails
PlainScalar(val) ==
    /\ val.Type = "string"
    /\ \/ ~ContainsNameMarker(val.StringVal)
       \/ YamlUnmarshalTasks(val.StringVal).err

\* C20 as stated: such a parameter is stored as its original string, adds
\* nothing else, and a Resolve that fails fails without it as well.
C20_ScalarNeverFails ==
    Normalized =>
        \A i \in 1..Len(params) :
            (PlainScalar(params[i].Value) /\ Dispatched(i))
                => /\ StoresRaw(i, StringValue(params[i].Value.StringVal))
                   /\ (pc = "done" /\ err # NoError) =>
                         ResolveAlone(RemoveAt(params, i), templateContent,
                                      err = ErrFetch).err # NoError

\* C20: a Scalar parameter without the name marker, or whose parse fails, is
\* stored under its identifier as exactly its original string and adds
\* nothing else; the parameter loop raises no error, so a Resolve that fails
\* after it fails in the expansion of the template.
C20_ScalarPassThrough ==
    Normalized =>
        \A i \in 1..Len(params) :
            (PlainScalar(params[i].Value) /\ Dispatched(i))
                => /\ StoresRaw(i, StringValue(params[i].Value.StringVal))
                   /\ pc \in { "render", "done" }
                   /\ (pc = "done" /\ err # NoError) =>
                         /\ err = ErrRender
                         /\ renderTemplate(templateContent, templateData).err

\* the text "name: a", which is a record and not a sequence, stored as it is
C20_Witness ==
    /\ pc = "done"
    /\ err = NoError
    /\ params # << >>
    /\ params[1] = StringParam(Foo, << "ya" >>)
    /\ templateData[FooCap] = StringValue(<< "ya" >>)
    /\ DOMAIN templateData = { FooCap }

\* C21: after normalization the repository value and the path value are in
\* the namespace under the identifiers toCamelCase derives from their names.
C21_RequiredUnderDerivedIdentifiers ==
    Normalized =>
        /\ HasParam(params, RepositoryParam) =>
              /\ toCamelCase(RepositoryParam) \in DOMAIN templateData
              /\ templateData[toCamelCase(RepositoryParam)] = StringValue(repository)
        /\ HasParam(params, PathParam) =>
              /\ toCamelCase(PathParam) \in DOMAIN templateData
              /\ templateData[toCamelCase(PathParam)] = StringValue(path)

EndsWith(key, suffix) ==
    /\ Len(key) >= Len(suffix)
    /\ SubSeq(key, Len(key) - Len(suffix) + 1, Len(key)) = suffix

\* parameter i is dispatched on and recognized as tasks with names, so that
\* its iteration writes the companion entry with this suffix
DerivesCompanion(i, key, suffix) ==
    /\ Dispatched(i)
    /\ key = toCamelCase(params[i].Name) \o suffix
    /\ \E e \in EntriesOf(params[i]) : e[1] = suffix

\* C22: every namespace entry whose key is an identifier followed by "Names"
\* or "Name" was derived from a parameter recognized as tasks; none is a
\* parameter of the caller stored under its own identifier.
C22_CompanionsOnlyDerived ==
    Normalized =>
        \A key \in DOMAIN templateData :
            /\ EndsWith(key, NamesSuffix) =>
                  \E i \in 1..Len(params) : DerivesCompanion(i, key, NamesSuffix)
            /\ (EndsWith(key, NameSuffix) /\ ~EndsWith(key, NamesSuffix)) =>
                  \E i \in 1..Len(params) : DerivesCompanion(i, key, NameSuffix)

\* C26: an entry that an earlier parameter produced under X+"Names",
\* X+"Name" or X+"Objects" is left as it is by the iteration on a later
\* parameter with identifier X.
C26_CompanionsNeverOverwrite ==
    Normalized =>
        \A i \in 1..Len(params) :
            LET X == toCamelCase(params[i].Name)
            IN  Dispatched(i) =>
                    \A suffix \in { NamesSuffix, NameSuffix, ObjectsSuffix } :
                        (X \o suffix) \in DOMAIN DataBefore(i) =>
                            StepOf(i)[X \o suffix] = DataBefore(i)[X \o suffix]

IsGistCall == fetch.stage # "idle" /\ HasPrefix(fetch.repoURL, GistPrefix)

GistRawURL(filePath) == << "gist-raw", fetch.repoURL[4], fetch.repoURL[5], filePath >>

\* what C24 says of every call but the condition of the second request
GistProtocol ==
    IsGistCall =>
        /\ Len(fetch.repoURL) < 5 =>
              /\ fetch.tried = << >>
              /\ fetch.stage = "returned" => fetch.err.msg = "invalid Gist URL format"
        /\ Len(fetch.tried) <= 2
        /\ Len(fetch.tried) >= 1 => fetch.tried[1] = GistRawURL(fetch.filePath)
        /\ Len(fetch.tried) = 2 => fetch.tried[2] = GistRawURL("")
        /\ (fetch.stage = "returned" /\ fetch.content = "text") =>
              /\ fetch.err.msg = "nil"
              /\ fetch.responses # << >>
              /\ fetch.responses[Len(fetch.responses)] = "200"

\* C24 as stated: a Gist URL with too few parts is rejected before any
\* request; otherwise the file-named raw URL is requested first, the URL
\* without filename is requested if and only if the first response is 404,
\* at most two requests are sent, and text is returned only after a 200.
C24_GistProtocol ==
    /\ GistProtocol
    /\ (IsGistCall /\ fetch.stage = "returned") =>
          (Len(fetch.tried) = 2 <=>
              (fetch.responses # << >> /\ fetch.responses[1] = "404"))

\* C24, amended: the second request is sent only after a 404, and after a
\* 404 it is sent unless closing the body of the 404 response failed, in
\* which case the call returns that error with one request sent.
C24_GistProtocolUnlessCloseFails ==
    /\ GistProtocol
    /\ (IsGistCall /\ fetch.stage = "returned") =>
          /\ Len(fetch.tried) = 2 =>
                (fetch.responses # << >> /\ fetch.responses[1] = "404")
          /\ (fetch.responses # << >> /\ fetch.responses[1] = "404") =>
                IF fetch.err.msg = "failed to close response body"
                THEN Len(fetch.tried) = 1 /\ fetch.content = ""
                ELSE Len(fetch.tried) = 2

C24_Witness ==
    /\ IsGistCall
    /\ Len(fetch.repoURL) >= 5
    /\ fetch.stage = "returned"
    /\ fetch.tried = << GistRawURL(fetch.filePath), GistRawURL("") >>
    /\ fetch.responses = << "404", "200" >>
    /\ fetch.content = "text"

TempDirCreated == fetch.tempDir # "none"

\* C29: on the clone path, once the call has returned after creating the
\* temporary directory, the directory is removed, whatever the outcome.
C29_TempDirRemoved ==
    (fetch.stage = "returned" /\ TempDirCreated) => fetch.tempDir = "removed"

Greatest(keys, key) ==
    /\ key \in keys
    /\ \A k \in keys : Rank(k) <= Rank(key)

\* C23: last returns true exactly when the key is the greatest key of the
\* map in lexical order, whatever the order in which the map was visited,
\* and returns false for a nil map.
C23_LastIsGreatestKey ==
    helper.stage = "last" =>
        /\ helper.last = "true" <=> (~helper.obj.isNil /\ Greatest(helper.obj.keys, helper.key))
        /\ helper.obj.isNil => helper.last = "false"
        /\ (helper.obj.keys # {} /\ ~Greatest(helper.obj.keys, helper.key)) =>
              helper.last = "false"

C23_Witness ==
    /\ helper.stage = "last"
    /\ helper.obj = [isNil |-> FALSE, keys |-> { "k", "name", "params" }]
    /\ helper.key = "params"
    /\ helper.last = "true"

\* C27: called with a map that is not nil and has no keys, last returns
\* false and the expansion goes on without an error.
C27_LastOnEmptyMap ==
    (helper.stage = "last" /\ ~helper.obj.isNil /\ helper.obj.keys = {}) =>
        (helper.last = "false" /\ ~helper.err)

\* C25: the configuration (HTTP timeout, resolution timeout, clone depth,
\* default branch, debug flag) changes only in a step of main at startup; no
\* step of ValidateParams, Resolve, FetchTemplate or the HTTP handler
\* changes it.
C25_ConfigWrittenOnlyInMain ==
    [][config' # config =>
          /\ ~config.started
          /\ UNCHANGED <<resolveCall, other, http, fetch, helper>>]_vars

C25_Witness ==
    /\ config.started
    /\ config.httpTimeout = 10
    /\ config.gitDefaultBranch = "develop"
    /\ config.standalone
    /\ http.stage = "responded"
    /\ http.status = StatusOK

\* the namespace entry of a required parameter stays as the first loop left
\* it through every iteration of the second loop
KeptThroughout(name) ==
    \A i \in 1..Len(params) :
        name \in DOMAIN DataBefore(i) =>
            /\ name \in DOMAIN StepOf(i)
            /\ StepOf(i)[name] = DataBefore(i)[name]

\* C28: the namespace entries of repository and path after normalization
\* equal the values passed to FetchTemplate; no other parameter and no
\* companion entry overwrites them; and when a required parameter occurs
\* more than once the same (last) occurrence gives the value fetched, the
\* namespace entry and the source descriptor.
C28_RequiredNotShadowed ==
    /\ fetchCalls # << >> =>
          /\ fetchCalls[1][1] = RequiredValue(params, RepositoryParam)
          /\ fetchCalls[1][2] = RequiredValue(params, PathParam)
    /\ Normalized =>
          /\ HasParam(params, RepositoryParam) =>
                /\ RepositoryParam \in DOMAIN templateData
                /\ templateData[RepositoryParam] = StringValue(fetchCalls[1][1])
          /\ HasParam(params, PathParam) =>
                /\ PathParam \in DOMAIN templateData
                /\ templateData[PathParam] = StringValue(fetchCalls[1][2])
          /\ KeptThroughout(RepositoryParam)
          /\ KeptThroughout(PathParam)
    /\ (pc = "done" /\ err = NoError) =>
          /\ RefSource(result).URI = RequiredValue(params, RepositoryParam)
          /\ RefSource(result).EntryPoint = RequiredValue(params, PathParam)

C28_Witness ==
    /\ pc = "done"
    /\ err = NoError
    /\ params = << StringParam(RepositoryParam, << "r1" >>),
                   StringParam(RepositoryParam, << "r2" >>),
                   StringParam(<< "R", "e", "p", "o", "s", "i", "t", "o", "r", "y" >>, << "bar" >>) >>
    /\ fetchCalls = << << << "r2" >>, EmptyString >> >>
    /\ templateData[RepositoryParam] = StringValue(<< "r2" >>)
    /\ RefSource(result).URI = << "r2" >>

====
